---------------------------- MODULE Spec2Model ----------------------------
(***************************************************************************)
(* Installation / bootstrap flow of the airdrop-claim platform:            *)
(*   - the backing store (relations, row-level security, policies,         *)
(*     indexes, rows, auth identities) as the Supabase client sees it;     *)
(*   - DatabaseInitService (prober, provisioner, seeder), both variants;   *)
(*   - InstallationService (check / perform / complete), both variants;    *)
(*   - the InstallPage wizard, three variants;                             *)
(*   - DatabaseService (claims, settings), the useAuth hook and the        *)
(*     EthplorerService, each under a specification of its own.            *)
(* The repository holds several versions of the same files; the version    *)
(* of each file that is in force is fixed at Init (page, svc, init).       *)
(***************************************************************************)
EXTENDS Naturals, Integers, Sequences, FiniteSets, TLC

VARIABLES
  page,       \* InstallPage version: "part_000" | "part_001" | "part_002"
  svc,        \* InstallationService version: "installation.ts" | "part_004"
  init,       \* DatabaseInitService version: "database-init.ts" | "part_003"
  db,         \* the backing store
  session,    \* the client holds an authenticated session
  installationStep, isInstalled, error, adminData, loading,  \* InstallPage state
  submitted,  \* the arguments of the signUp call handleAdminSetup has issued
  inFlight,   \* handleAdminSetup invocations of the mounted page that are past
              \* validation and have not reached their finally block
  pc,         \* the pending await of the page: "check" | "install" | "signUp" | "complete" | "idle"
  log,        \* the service routines the latest step invoked, in order, with results
  useAuth,    \* the useAuth hook of the application: its state and its pending calls
  ethplorerService  \* the EthplorerService object: its key and its pending calls

vars == <<page, svc, init, db, session, installationStep, isInstalled, error,
          adminData, loading, submitted, inFlight, pc, log, useAuth,
          ethplorerService>>

(***************************************************************************)
(* Bounds.                                                                 *)
(***************************************************************************)
\* installation_status rows the store may hold (the upsert / insert-on-error
\* variants add rows without limit)
MaxStatusRows == 2

(***************************************************************************)
(* The backing store.                                                      *)
(***************************************************************************)
Relations ==
  {"whitelist_tokens", "airdrop_claims", "admin_settings", "admin_users",
   "installation_status"}

\* database-init.ts requiredTables, in probing order
requiredTables ==
  <<"whitelist_tokens", "airdrop_claims", "admin_settings", "admin_users",
    "installation_status">>

\* part_003 checkAndInitialize probes four relations only
basicTables ==
  <<"whitelist_tokens", "airdrop_claims", "admin_settings", "installation_status">>

\* part_004 performInstallation verifies in this order
verifyTables ==
  <<"whitelist_tokens", "admin_settings", "airdrop_claims", "admin_users",
    "installation_status">>

\* installation.ts performInstallation verifies three relations
verifyTablesBasic == <<"whitelist_tokens", "admin_settings", "airdrop_claims">>

StatusRel == "installation_status"

Range(s) == {s[i] : i \in 1..Len(s)}

Pol(name, tbl, cmd, auth, activeOnly) ==
  [name |-> name, tbl |-> tbl, cmd |-> cmd, auth |-> auth, activeOnly |-> activeOnly]

\* a policy set whose settings policy is not restricted to authenticated
\* callers
BasePoliciesPublicSettings ==
  { Pol("Public can read active whitelist tokens", "whitelist_tokens", "SELECT", FALSE, TRUE),
    Pol("Authenticated users can manage whitelist tokens", "whitelist_tokens", "ALL", TRUE, FALSE),
    Pol("Public can read claims", "airdrop_claims", "SELECT", FALSE, FALSE),
    Pol("Public can create claims", "airdrop_claims", "INSERT", FALSE, FALSE),
    Pol("Authenticated users can update claims", "airdrop_claims", "UPDATE", TRUE, FALSE),
    Pol("Public can read settings", "admin_settings", "SELECT", FALSE, FALSE),
    Pol("Authenticated users can manage settings", "admin_settings", "ALL", FALSE, FALSE),
    Pol("Public can read installation status", "installation_status", "SELECT", FALSE, FALSE),
    Pol("Authenticated users can update installation status", "installation_status", "ALL", TRUE, FALSE) }

\* policies of the first migration / of the first four relations
BasePolicies ==
  { Pol("Public can read active whitelist tokens", "whitelist_tokens", "SELECT", FALSE, TRUE),
    Pol("Authenticated users can manage whitelist tokens", "whitelist_tokens", "ALL", TRUE, FALSE),
    Pol("Public can read claims", "airdrop_claims", "SELECT", FALSE, FALSE),
    Pol("Public can create claims", "airdrop_claims", "INSERT", FALSE, FALSE),
    Pol("Authenticated users can update claims", "airdrop_claims", "UPDATE", TRUE, FALSE),
    Pol("Public can read settings", "admin_settings", "SELECT", FALSE, FALSE),
    Pol("Authenticated users can manage settings", "admin_settings", "ALL", TRUE, FALSE),
    Pol("Public can read installation status", "installation_status", "SELECT", FALSE, FALSE),
    Pol("Authenticated users can update installation status", "installation_status", "ALL", TRUE, FALSE) }

\* policies of admin_users
AdminUserPolicies ==
  { Pol("Authenticated users can read admin users", "admin_users", "SELECT", TRUE, FALSE),
    Pol("Authenticated users can insert admin users", "admin_users", "INSERT", TRUE, FALSE),
    Pol("Authenticated users can update admin users", "admin_users", "UPDATE", TRUE, FALSE),
    Pol("Authenticated users can delete admin users", "admin_users", "DELETE", TRUE, FALSE) }

\* CREATE POLICY statements of enableRLSAndCreatePolicies
CreatedPolicies == BasePolicies \cup AdminUserPolicies

\* a DROP list that misses the policies of admin_users
DroppedPoliciesWithoutAdminUsers ==
  {<<p.name, p.tbl>> : p \in BasePolicies}

\* DROP POLICY IF EXISTS statements of enableRLSAndCreatePolicies: <<name, table>>
DroppedPolicies ==
  { <<"Public can read active whitelist tokens", "whitelist_tokens">>,
    <<"Authenticated users can manage whitelist tokens", "whitelist_tokens">>,
    <<"Public can read claims", "airdrop_claims">>,
    <<"Public can create claims", "airdrop_claims">>,
    <<"Authenticated users can update claims", "airdrop_claims">>,
    <<"Public can read settings", "admin_settings">>,
    <<"Authenticated users can manage settings", "admin_settings">>,
    <<"Public can read installation status", "installation_status">>,
    <<"Authenticated users can update installation status", "installation_status">>,
    <<"Authenticated users can read admin users", "admin_users">>,
    <<"Authenticated users can insert admin users", "admin_users">>,
    <<"Authenticated users can update admin users", "admin_users">>,
    <<"Authenticated users can delete admin users", "admin_users">> }

BaseIndexes ==
  {"idx_whitelist_tokens_address", "idx_whitelist_tokens_active",
   "idx_airdrop_claims_wallet", "idx_airdrop_claims_status", "idx_admin_settings_key"}

AdminUserIndexes ==
  {"idx_admin_users_email", "idx_admin_users_role", "idx_admin_users_active"}

\* CREATE INDEX IF NOT EXISTS statements of createIndexes
CreatedIndexes == BaseIndexes \cup AdminUserIndexes

Token(address, name, symbol, amount) ==
  [address |-> address, name |-> name, symbol |-> symbol,
   airdrop_amount |-> amount, is_active |-> TRUE]

\* a default whitelist without its last entry
DefaultWhitelistWithoutWBTC ==
  { Token("0x95ad61b0a150d79219dcf64e1e6cc01f0b64c4ce", "Shiba Inu", "SHIB", 1000000),
    Token("0x514910771af9ca656af840dff83e8264ecf986ca", "Chainlink", "LINK", 50),
    Token("0x1f9840a85d5af5bf1d1762f925bdaddc4201f984", "Uniswap", "UNI", 100),
    Token("0x6b175474e89094c44da98b954eedeac495271d0f", "Dai Stablecoin", "DAI", 500),
    Token("0x7d1afa7b718fb893db30a3abc0cfc608aacfebb0", "Polygon", "MATIC", 200) }

\* the default whitelist of insertDefaultData
DefaultWhitelist ==
  { Token("0x95ad61b0a150d79219dcf64e1e6cc01f0b64c4ce", "Shiba Inu", "SHIB", 1000000),
    Token("0x514910771af9ca656af840dff83e8264ecf986ca", "Chainlink", "LINK", 50),
    Token("0x1f9840a85d5af5bf1d1762f925bdaddc4201f984", "Uniswap", "UNI", 100),
    Token("0x6b175474e89094c44da98b954eedeac495271d0f", "Dai Stablecoin", "DAI", 500),
    Token("0x7d1afa7b718fb893db30a3abc0cfc608aacfebb0", "Polygon", "MATIC", 200),
    Token("0x2260fac5e5542a773aa44fbcfedf7c193bc2c599", "Wrapped Bitcoin", "WBTC", 1) }

\* the INSERT INTO whitelist_tokens of the first migration
MigrationWhitelist ==
  { Token("0x95ad61b0a150d79219dcf64e1e6cc01f0b64c4ce", "Shiba Inu", "SHIB", 1000000),
    Token("0x514910771af9ca656af840dff83e8264ecf986ca", "Chainlink", "LINK", 50),
    Token("0x1f9840a85d5af5bf1d1762f925bdaddc4201f984", "Uniswap", "UNI", 100),
    Token("0x6b175474e89094c44da98b954eedeac495271d0f", "Dai Stablecoin", "DAI", 500),
    Token("0x7d1afa7b718fb893db30a3abc0cfc608aacfebb0", "Polygon", "MATIC", 200),
    Token("0x2260fac5e5542a773aa44fbcfedf7c193bc2c599", "Wrapped Bitcoin", "WBTC", 1) }

\* the default settings of insertDefaultData
DefaultSettings ==
  { [key |-> "ethplorer_api_key", value |-> "freekey"],
    [key |-> "platform_name", value |-> "AirdropHub"],
    [key |-> "max_claims_per_address", value |-> "1"],
    [key |-> "airdrop_enabled", value |-> "true"] }

\* a fresh project: no relation, no identity
FreshBackend(execSql) ==
  [ execSql     |-> execSql,      \* the exec_sql remote procedure exists
    tables      |-> {},
    constraints |-> {},
    rls         |-> {},
    policies    |-> {},
    indexes     |-> {},
    rows        |-> [r \in Relations |-> {}],
    users       |-> {} ]


(***************************************************************************)
(* Faults: a backend call of the step either answers, answers with an      *)
(* error, or throws.  F is the set of <<call site, kind>> that fail.       *)
(***************************************************************************)
Fault(F, site) ==
  IF <<site, "throw">> \in F THEN "throw"
  ELSE IF <<site, "error">> \in F THEN "error"
  ELSE "ok"

\* an event of the log
Ev(fn, arg, ret) == [fn |-> fn, arg |-> arg, ret |-> ret]

B2S(b) == IF b THEN "true" ELSE "false"

(***************************************************************************)
(* Row-level security as PostgREST applies it to the client's role.        *)
(***************************************************************************)
\* some policy of relation rel admits command cmd for the caller
Allowed(d, s, rel, cmd) ==
  \/ rel \notin d.rls
  \/ \E p \in d.policies :
        /\ p.tbl = rel
        /\ p.cmd \in {cmd, "ALL"}
        /\ (~p.auth \/ s)

\* the rows of rel a select returns to the caller
Visible(d, s, rel) ==
  IF rel \notin d.rls THEN d.rows[rel]
  ELSE LET ps == {p \in d.policies :
                    p.tbl = rel /\ p.cmd \in {"SELECT", "ALL"} /\ (~p.auth \/ s)}
       IN  {r \in d.rows[rel] : \E p \in ps : (~p.activeOnly \/ r.is_active)}

\* supabase.from(rel).select(...): {data, error}
Select(d, s, rel, site, F) ==
  LET k == Fault(F, site) IN
  IF k # "ok" THEN [k |-> k, rows |-> {}]
  ELSE IF rel \notin d.tables THEN [k |-> "error", rows |-> {}]
  ELSE [k |-> "ok", rows |-> Visible(d, s, rel)]

\* the unique key of a row of rel (installation_status has none but its id)
KeyOf(rel, r) ==
  IF rel = "whitelist_tokens" THEN r.address
  ELSE IF rel = "admin_settings" THEN r.key
  ELSE r.id

NextId(d, rel) == Cardinality(d.rows[rel]) + 1

\* supabase.from(rel).insert(rows): the rows are added, or the call fails
\* (missing relation, policy violation, unique violation) and adds nothing
Insert(d, s, rel, rows, site, F) ==
  LET k == Fault(F, site) IN
  IF k # "ok" THEN [k |-> k, db |-> d]
  ELSE IF rel \notin d.tables \/ ~Allowed(d, s, rel, "INSERT")
    THEN [k |-> "error", db |-> d]
  ELSE IF \E r \in rows : \E q \in d.rows[rel] : KeyOf(rel, q) = KeyOf(rel, r)
    THEN [k |-> "error", db |-> d]
  ELSE [k |-> "ok", db |-> [d EXCEPT !.rows[rel] = @ \cup rows]]

\* a new installation_status row; the id is generated by the store
StatusRow(d, installed) ==
  [id |-> NextId(d, "installation_status"), is_installed |-> installed,
   version |-> "1.0.0"]

(***************************************************************************)
(* The SQL scripts of the provisioner, statement by statement.  A script   *)
(* runs in one transaction: it is applied whole or fails and changes       *)
(* nothing.                                                                *)
(***************************************************************************)
SqlResult(ok, d) == [ok |-> ok, db |-> d]

\* createTablesSQL: CREATE TABLE IF NOT EXISTS x5, the two guarded constraints
createTablesSQL(d) ==
  SqlResult(TRUE,
    [d EXCEPT !.tables = @ \cup Relations,
              !.constraints = @ \cup {"airdrop_claims_status_check",
                                      "admin_users_role_check"}])

\* rlsSQL: ENABLE ROW LEVEL SECURITY x5, DROP POLICY IF EXISTS, CREATE POLICY
rlsSQL(d) ==
  LET kept == {p \in d.policies : <<p.name, p.tbl>> \notin DroppedPolicies}
      clash == \E p \in CreatedPolicies : \E q \in kept :
                  q.name = p.name /\ q.tbl = p.tbl
  IN  IF ~(Relations \subseteq d.tables) \/ clash
        THEN SqlResult(FALSE, d)
        ELSE SqlResult(TRUE, [d EXCEPT !.rls = @ \cup Relations,
                                       !.policies = kept \cup CreatedPolicies])

\* indexSQL: CREATE INDEX IF NOT EXISTS x8
indexSQL(d) ==
  IF ~({"whitelist_tokens", "airdrop_claims", "admin_settings", "admin_users"}
         \subseteq d.tables)
    THEN SqlResult(FALSE, d)
    ELSE SqlResult(TRUE, [d EXCEPT !.indexes = @ \cup CreatedIndexes])

\* supabase.rpc('exec_sql', {sql}): [k, db]
ExecSql(d, script, site, F) ==
  LET k == Fault(F, site) IN
  IF k # "ok" THEN [k |-> k, db |-> d]
  ELSE IF ~d.execSql \/ ~script.ok THEN [k |-> "error", db |-> d]
  ELSE [k |-> "ok", db |-> script.db]

(***************************************************************************)
(* DatabaseInitService.  A routine yields [db, log, ret, thrown].          *)
(***************************************************************************)
Res(d, l, ret, thrown) == [db |-> d, log |-> l, ret |-> ret, thrown |-> thrown]

\* v is computed once and handed to K
Bind(v, K(_)) == K(v)

\* a prober that looks for an exception only, not at the error of the answer
tableExistsIgnoringError(d, s, tableName, site, F) ==
  Select(d, s, tableName, site, F).k # "throw"

\* tableExists: a read of at most one row; any error or exception is "absent"
tableExists(d, s, tableName, site, F) ==
  Select(d, s, tableName, site, F).k = "ok"

\* the probes of a loop over tbls, as log events
ProbeLog(d, s, tbls, caller, F, n) ==
  [i \in 1..n |->
     Ev("tableExists", tbls[i], B2S(tableExists(d, s, tbls[i], <<caller, tbls[i]>>, F)))]

\* createExecSqlFunction: true iff the exec_sql call itself answered without error
createExecSqlFunction(d, F) ==
  LET r == ExecSql(d, SqlResult(TRUE, d), <<"createExecSqlFunction", "rpc">>, F)
  IN  Res(d, <<Ev("createExecSqlFunction", "", B2S(r.k = "ok"))>>, r.k = "ok", FALSE)

createTablesIfNotExist(d, F) ==
  LET r == ExecSql(d, createTablesSQL(d), <<"createTablesIfNotExist", "rpc">>, F)
  IN  Res(r.db, <<Ev("createTablesIfNotExist", "", B2S(r.k = "ok"))>>, r.k = "ok", FALSE)

enableRLSAndCreatePolicies(d, F) ==
  LET r == ExecSql(d, rlsSQL(d), <<"enableRLSAndCreatePolicies", "rpc">>, F)
  IN  Res(r.db, <<Ev("enableRLSAndCreatePolicies", "", B2S(r.k = "ok"))>>, r.k = "ok", FALSE)

createIndexes(d, F) ==
  LET r == ExecSql(d, indexSQL(d), <<"createIndexes", "rpc">>, F)
  IN  Res(r.db, <<Ev("createIndexes", "", B2S(r.k = "ok"))>>, r.k = "ok", FALSE)

\* one "check and insert" block of insertDefaultData: a read that fails or
\* returns nothing is followed by the insert, whose result is not looked at
SeedStep(d, s, F, rel, rows) ==
  LET r == Select(d, s, rel, <<"insertDefaultData.select", rel>>, F) IN
  IF r.k = "throw" THEN [thrown |-> TRUE, db |-> d]
  ELSE IF r.k = "error" \/ r.rows = {}
    THEN LET i == Insert(d, s, rel, rows, <<"insertDefaultData.insert", rel>>, F)
         IN  [thrown |-> i.k = "throw", db |-> i.db]
    ELSE [thrown |-> FALSE, db |-> d]

\* the installation_status row the seeder inserts
SeedStatusRow(d) == StatusRow(d, TRUE)

\* a seeder without the catch block: an exception of a backend call reaches
\* the caller
insertDefaultDataUncaught(d, s, F) ==
  Bind(SeedStep(d, s, F, "whitelist_tokens", DefaultWhitelist), LAMBDA a :
    IF a.thrown THEN Res(a.db, <<Ev("insertDefaultData", "", "throw")>>, FALSE, TRUE)
    ELSE
    Bind(SeedStep(a.db, s, F, "admin_settings", DefaultSettings), LAMBDA b :
      IF b.thrown THEN Res(b.db, <<Ev("insertDefaultData", "", "throw")>>, FALSE, TRUE)
      ELSE
      Bind(SeedStep(b.db, s, F, StatusRel, {SeedStatusRow(b.db)}), LAMBDA c :
        Res(c.db, <<Ev("insertDefaultData", "", IF c.thrown THEN "throw" ELSE "void")>>,
            ~c.thrown, c.thrown))))

\* insertDefaultData (both versions): whitelist, settings, installation status;
\* an exception ends it silently
insertDefaultData(d, s, F) ==
  Bind(SeedStep(d, s, F, "whitelist_tokens", DefaultWhitelist), LAMBDA a :
    IF a.thrown THEN Res(a.db, <<Ev("insertDefaultData", "", "void")>>, TRUE, FALSE)
    ELSE
    Bind(SeedStep(a.db, s, F, "admin_settings", DefaultSettings), LAMBDA b :
      IF b.thrown THEN Res(b.db, <<Ev("insertDefaultData", "", "void")>>, TRUE, FALSE)
      ELSE
      Bind(SeedStep(b.db, s, F, StatusRel, {SeedStatusRow(b.db)}), LAMBDA c :
        Res(c.db, <<Ev("insertDefaultData", "", "void")>>, TRUE, FALSE))))

\* index of the first relation of tbls the probe reports absent, 0 if none
FirstAbsent(d, s, tbls, caller, F) ==
  LET bad == {i \in 1..Len(tbls) : ~tableExists(d, s, tbls[i], <<caller, tbls[i]>>, F)}
  IN  IF bad = {} THEN 0 ELSE CHOOSE i \in bad : \A j \in bad : i <= j

\* a routine's result, with the events l before its own and e after
Wrap(l, r, e) == Res(r.db, l \o r.log \o e, r.ret, r.thrown)

\* a fallback that seeds without probing the relations
initializeDatabaseFallbackUnprobed(d, s, F) ==
  Wrap(<<>>, insertDefaultData(d, s, F), <<Ev("initializeDatabase", "", "true")>>)

\* initializeDatabase of database-init.ts, exec_sql unavailable: every
\* relation must already exist (the loop stops at the first absent one)
initializeDatabaseFallback(d, s, F) ==
  Bind(FirstAbsent(d, s, requiredTables, "initializeDatabase", F), LAMBDA k :
    Bind(ProbeLog(d, s, requiredTables, "initializeDatabase", F,
                  IF k = 0 THEN Len(requiredTables) ELSE k), LAMBDA pl :
      IF k # 0
        THEN Res(d, pl \o <<Ev("initializeDatabase", "", "throw")>>, FALSE, TRUE)
        ELSE Wrap(pl, insertDefaultData(d, s, F), <<Ev("initializeDatabase", "", "true")>>)))

\* an initializeDatabase that fails when the defaults are not in place after
\* seeding
initializeDatabaseCreateSeedChecked(d, s, F) ==
  Bind(createTablesIfNotExist(d, F), LAMBDA ct :
    IF ~ct.ret
      THEN Res(ct.db, ct.log \o <<Ev("initializeDatabase", "", "throw")>>, FALSE, TRUE)
      ELSE
      Bind(enableRLSAndCreatePolicies(ct.db, F), LAMBDA rl :
        Bind(createIndexes(rl.db, F), LAMBDA ix :
          Bind(insertDefaultData(ix.db, s, F), LAMBDA sd :
            IF sd.db.rows["whitelist_tokens"] = {}
              THEN Res(sd.db, ct.log \o rl.log \o ix.log \o sd.log
                                \o <<Ev("initializeDatabase", "", "throw")>>, FALSE, TRUE)
              ELSE Wrap(ct.log \o rl.log \o ix.log, sd,
                        <<Ev("initializeDatabase", "", "true")>>)))))

\* initializeDatabase of database-init.ts, exec_sql available: tables (or
\* throw), policies and indexes (a failure is only warned about), defaults
initializeDatabaseCreate(d, s, F) ==
  Bind(createTablesIfNotExist(d, F), LAMBDA ct :
    IF ~ct.ret
      THEN Res(ct.db, ct.log \o <<Ev("initializeDatabase", "", "throw")>>, FALSE, TRUE)
      ELSE
      Bind(enableRLSAndCreatePolicies(ct.db, F), LAMBDA rl :
        Bind(createIndexes(rl.db, F), LAMBDA ix :
          Wrap(ct.log \o rl.log \o ix.log, insertDefaultData(ix.db, s, F),
               <<Ev("initializeDatabase", "", "true")>>))))

\* initializeDatabase of database-init.ts
initializeDatabase(d, s, F) ==
  Bind(createExecSqlFunction(d, F), LAMBDA fn :
    IF ~fn.ret THEN Wrap(fn.log, initializeDatabaseFallback(d, s, F), <<>>)
               ELSE Wrap(fn.log, initializeDatabaseCreate(d, s, F), <<>>))

\* the value checkAndInitialize returns for the result r of a routine it
\* awaits inside its try block: an exception is caught and gives false
Caught(l, r, fn) ==
  Res(r.db, l \o r.log \o <<Ev(fn, "", B2S(~r.thrown /\ r.ret))>>,
      ~r.thrown /\ r.ret, FALSE)

\* a checkAndInitialize that decides on its last probe alone
checkAndInitializeLastProbeOnly(d, s, F) ==
  Bind(ProbeLog(d, s, requiredTables, "checkAndInitialize", F, Len(requiredTables)),
    LAMBDA pl :
      IF pl[Len(pl)].ret = "false"
        THEN Caught(pl, initializeDatabase(d, s, F), "checkAndInitialize")
        ELSE Caught(pl, insertDefaultData(d, s, F), "checkAndInitialize"))

\* checkAndInitialize of database-init.ts
checkAndInitialize(d, s, F) ==
  Bind(ProbeLog(d, s, requiredTables, "checkAndInitialize", F, Len(requiredTables)),
    LAMBDA pl :
      IF \E i \in 1..Len(pl) : pl[i].ret = "false"
        THEN Caught(pl, initializeDatabase(d, s, F), "checkAndInitialize")
        ELSE Caught(pl, insertDefaultData(d, s, F), "checkAndInitialize"))

\* initializeDatabase of part_003: no creation, seeding only
initializeDatabase_p3(d, s, F) ==
  Wrap(<<>>, insertDefaultData(d, s, F), <<Ev("initializeDatabase", "", "true")>>)

\* checkAndInitialize of part_003: four relations probed, nothing created
checkAndInitialize_p3(d, s, F) ==
  Bind(ProbeLog(d, s, basicTables, "checkAndInitialize", F, Len(basicTables)),
    LAMBDA pl :
      IF \E i \in 1..Len(pl) : pl[i].ret = "false"
        THEN Res(d, pl \o <<Ev("checkAndInitialize", "", "false")>>, FALSE, FALSE)
        ELSE Caught(pl, insertDefaultData(d, s, F), "checkAndInitialize"))

(***************************************************************************)
(* lib/supabase ensureDatabaseInitialized: part_004 imports it, its source *)
(* is not among the files; taken to run the prober / provisioner / seeder  *)
(* routine checkAndInitialize of the DatabaseInitService in force.         *)
(***************************************************************************)
ensureDatabaseInitialized(v, d, s, F) ==
  Caught(<<>>,
         IF v = "database-init.ts" THEN checkAndInitialize(d, s, F)
                                   ELSE checkAndInitialize_p3(d, s, F),
         "ensureDatabaseInitialized")

(***************************************************************************)
(* InstallationService.                                                    *)
(***************************************************************************)
\* .from('installation_status').select('is_installed, version').single():
\* an error unless exactly one row is returned
SingleStatus(d, s, site, F) ==
  LET r == Select(d, s, StatusRel, site, F) IN
  IF r.k # "ok" THEN [k |-> r.k, is_installed |-> FALSE]
  ELSE IF Cardinality(r.rows) # 1 THEN [k |-> "error", is_installed |-> FALSE]
  ELSE [k |-> "ok", is_installed |-> (CHOOSE x \in r.rows : TRUE).is_installed]

\* .update({is_installed: true, ...}).eq('is_installed', false): rows the
\* caller may not update are silently left alone
UpdateStatusWhereFalse(d, s, site, F) ==
  LET k == Fault(F, site) IN
  IF k # "ok" THEN [k |-> k, db |-> d]
  ELSE IF StatusRel \notin d.tables THEN [k |-> "error", db |-> d]
  ELSE IF ~Allowed(d, s, StatusRel, "UPDATE") THEN [k |-> "ok", db |-> d]
  ELSE [k |-> "ok",
        db |-> [d EXCEPT !.rows[StatusRel] =
                  {IF r \in Visible(d, s, StatusRel) /\ ~r.is_installed
                     THEN [r EXCEPT !.is_installed = TRUE] ELSE r : r \in @}]]

\* .upsert({is_installed: true, installed_at, version}): no id is given, so
\* the generated primary key never conflicts and a row is inserted
UpsertStatus(d, s, site, F) ==
  Insert(d, s, StatusRel, {StatusRow(d, TRUE)}, site, F)

\* a checkInstallationStatus without the catch block: an exception of the
\* read reaches the caller
checkInstallationStatusUncaught(d, s, F) ==
  Bind(SingleStatus(d, s, <<"checkInstallationStatus", "single">>, F), LAMBDA r :
    IF r.k = "throw"
      THEN Res(d, <<Ev("checkInstallationStatus", "", "throw")>>, FALSE, TRUE)
      ELSE Res(d, <<Ev("checkInstallationStatus", "", B2S(r.k = "ok" /\ r.is_installed))>>,
               r.k = "ok" /\ r.is_installed, FALSE))

\* checkInstallationStatus of installation.ts
checkInstallationStatus(d, s, F) ==
  Bind(SingleStatus(d, s, <<"checkInstallationStatus", "single">>, F), LAMBDA r :
    Res(d, <<Ev("checkInstallationStatus", "", B2S(r.k = "ok" /\ r.is_installed))>>,
        r.k = "ok" /\ r.is_installed, FALSE))

\* checkInstallationStatus of part_004 after ensureDatabaseInitialized (e):
\* a failed read is answered by inserting an installed row
checkInstallationStatusRead(e, s, F) ==
  Bind(SingleStatus(e.db, s, <<"checkInstallationStatus", "single">>, F), LAMBDA r :
    IF r.k = "throw"
      THEN Res(e.db, e.log \o <<Ev("checkInstallationStatus", "", "false")>>, FALSE, FALSE)
    ELSE IF r.k = "error"
      THEN Bind(Insert(e.db, s, StatusRel, {StatusRow(e.db, TRUE)},
                       <<"checkInstallationStatus", "insert">>, F), LAMBDA i :
             Res(i.db, e.log \o <<Ev("checkInstallationStatus", "", B2S(i.k = "ok"))>>,
                 i.k = "ok", FALSE))
    ELSE Res(e.db, e.log \o <<Ev("checkInstallationStatus", "", B2S(r.is_installed))>>,
             r.is_installed, FALSE))

\* checkInstallationStatus of part_004
checkInstallationStatus_p4(v, d, s, F) ==
  checkInstallationStatusRead(ensureDatabaseInitialized(v, d, s, F), s, F)

\* a verification that does not look at the error of the answers
AllReadableUnchecked(d, s, tbls, F) ==
  \A i \in 1..Len(tbls) :
     Select(d, s, tbls[i], <<"performInstallation", tbls[i]>>, F).k # "throw"

\* every relation of tbls answers a one-row read without error
AllReadable(d, s, tbls, F) ==
  \A i \in 1..Len(tbls) :
     Select(d, s, tbls[i], <<"performInstallation", tbls[i]>>, F).k = "ok"

\* performInstallation of installation.ts: verification only
performInstallation(d, s, F) ==
  Bind(AllReadable(d, s, verifyTablesBasic, F), LAMBDA ret :
    Res(d, <<Ev("performInstallation", "", B2S(ret))>>, ret, FALSE))

\* performInstallation of part_004: initialise, then verify five relations
performInstallation_p4(v, d, s, F) ==
  Bind(ensureDatabaseInitialized(v, d, s, F), LAMBDA e :
    Bind(e.ret /\ AllReadable(e.db, s, verifyTables, F), LAMBDA ret :
      Res(e.db, e.log \o <<Ev("performInstallation", "", B2S(ret))>>, ret, FALSE)))

\* completeInstallation of installation.ts
completeInstallation(d, s, F) ==
  Bind(UpdateStatusWhereFalse(d, s, <<"completeInstallation", "update">>, F), LAMBDA u :
    Res(u.db, <<Ev("completeInstallation", "", B2S(u.k = "ok"))>>, u.k = "ok", FALSE))

\* completeInstallation of part_004
completeInstallation_p4(v, d, s, F) ==
  Bind(ensureDatabaseInitialized(v, d, s, F), LAMBDA e :
    Bind(UpsertStatus(e.db, s, <<"completeInstallation", "upsert">>, F), LAMBDA u :
      Res(u.db, e.log \o <<Ev("completeInstallation", "", B2S(u.k = "ok"))>>,
          u.k = "ok", FALSE)))

(***************************************************************************)
(* Fault choices of a step.                                                *)
(***************************************************************************)
Sites(caller, tbls) == {<<caller, tbls[i]>> : i \in 1..Len(tbls)}

SeedSites ==
  {<<"insertDefaultData.select", r>> : r \in {"whitelist_tokens", "admin_settings", StatusRel}}
    \cup
  {<<"insertDefaultData.insert", r>> : r \in {"whitelist_tokens", "admin_settings", StatusRel}}

InitSites ==
  {<<"createExecSqlFunction", "rpc">>, <<"createTablesIfNotExist", "rpc">>,
   <<"enableRLSAndCreatePolicies", "rpc">>, <<"createIndexes", "rpc">>}
    \cup SeedSites
    \cup Sites("initializeDatabase", requiredTables)
    \cup Sites("checkAndInitialize", requiredTables)

CheckSites(v) ==
  {<<"checkInstallationStatus", "single">>}
    \cup (IF v = "part_004"
            THEN InitSites \cup {<<"checkInstallationStatus", "insert">>} ELSE {})

PerformSites(v) ==
  IF v = "part_004" THEN InitSites \cup Sites("performInstallation", verifyTables)
                    ELSE Sites("performInstallation", verifyTablesBasic)

CompleteSites(v) ==
  IF v = "part_004" THEN InitSites \cup {<<"completeInstallation", "upsert">>}
                    ELSE {<<"completeInstallation", "update">>}

\* single-fault assumption: in one step at most one backend call fails
FaultSets(sites) ==
  {{}} \cup {{<<x, k>>} : x \in sites, k \in {"error", "throw"}}

\* steps that may add installation_status rows stop at the bound
StatusRoom == Cardinality(db.rows[StatusRel]) < MaxStatusRows

(***************************************************************************)
(* InstallPage.                                                            *)
(***************************************************************************)
Emails == {"admin@example.com"}
Passwords == {"abc", "secret1", "secret2"}

NoError == "null"
EmptyAdminData == [email |-> "", password |-> "", confirmPassword |-> ""]
NothingSubmitted == [email |-> "", password |-> ""]

\* the wizard runs before the application: useAuth is used for signUp only
\* and no EthplorerService request is made
NoAuth == "unused"
NoEth == "unused"

\* the component as mounted: useState initial values, the effect's call pending
Mounted ==
  /\ installationStep' = "checking"
  /\ isInstalled' = FALSE
  /\ error' = NoError
  /\ adminData' = EmptyAdminData
  /\ loading' = FALSE
  /\ submitted' = NothingSubmitted
  /\ inFlight' = 0
  /\ pc' = "check"
  /\ log' = <<>>

Init ==
  /\ page \in {"part_000", "part_001", "part_002"}
  /\ svc \in {"installation.ts", "part_004"}
  /\ init \in {"database-init.ts", "part_003"}
  /\ (svc = "installation.ts" => init = "database-init.ts")  \* init is not used there
  /\ \E x \in BOOLEAN : db = FreshBackend(x)
  /\ session = FALSE
  /\ installationStep = "checking"
  /\ isInstalled = FALSE
  /\ error = NoError
  /\ adminData = EmptyAdminData
  /\ loading = FALSE
  /\ submitted = NothingSubmitted
  /\ inFlight = 0
  /\ pc = "check"
  /\ log = <<>>
  /\ useAuth = NoAuth
  /\ ethplorerService = NoEth

Config == <<page, svc, init>>

\* installationService.checkInstallationStatus() of the version in force
SvcCheck(F) ==
  IF svc = "part_004" THEN checkInstallationStatus_p4(init, db, session, F)
                      ELSE checkInstallationStatus(db, session, F)

SvcPerform(F) ==
  IF svc = "part_004" THEN performInstallation_p4(init, db, session, F)
                      ELSE performInstallation(db, session, F)

SvcComplete(F) ==
  IF svc = "part_004" THEN completeInstallation_p4(init, db, session, F)
                      ELSE completeInstallation(db, session, F)

\* a status check that shows `completed` and starts performInstallation all
\* the same
CheckStatusResolvesThenInstalls ==
  /\ pc = "check"
  /\ svc = "part_004" => StatusRoom
  /\ \E F \in FaultSets(CheckSites(svc)) :
       \E r \in {SvcCheck(F)} :
       /\ db' = r.db
       /\ log' = r.log
       /\ IF r.thrown
            THEN \* the catch block of the page
              /\ UNCHANGED isInstalled
              /\ IF page = "part_000"
                   THEN /\ error' = "Failed to check installation status"
                        /\ UNCHANGED installationStep /\ pc' = "idle"
                 ELSE IF page = "part_001"
                   THEN /\ error' = "Database tables not found"
                        /\ installationStep' = "migration-needed" /\ pc' = "idle"
                 ELSE /\ error' = NoError
                      /\ installationStep' = "installing" /\ pc' = "install"
          ELSE IF r.ret
            THEN /\ isInstalled' = TRUE
                 /\ installationStep' = "completed" /\ pc' = "install"
                 /\ error' = IF page = "part_002" THEN NoError ELSE error
            ELSE /\ isInstalled' = FALSE
                 /\ installationStep' = "installing" /\ pc' = "install"
                 /\ error' = NoError
  /\ UNCHANGED <<useAuth, ethplorerService, page, svc, init, session, adminData, loading, submitted, inFlight>>

\* a status check that shows `installing` and does not call performInstallation
CheckStatusResolvesWithoutInstall ==
  /\ pc = "check"
  /\ svc = "part_004" => StatusRoom
  /\ \E F \in FaultSets(CheckSites(svc)) :
       \E r \in {SvcCheck(F)} :
       /\ db' = r.db
       /\ log' = r.log
       /\ IF r.thrown
            THEN \* the catch block of the page
              /\ UNCHANGED isInstalled
              /\ IF page = "part_000"
                   THEN /\ error' = "Failed to check installation status"
                        /\ UNCHANGED installationStep /\ pc' = "idle"
                 ELSE IF page = "part_001"
                   THEN /\ error' = "Database tables not found"
                        /\ installationStep' = "migration-needed" /\ pc' = "idle"
                 ELSE /\ error' = NoError
                      /\ installationStep' = "installing" /\ pc' = "install"
          ELSE IF r.ret
            THEN /\ isInstalled' = TRUE
                 /\ installationStep' = "completed" /\ pc' = "idle"
                 /\ error' = IF page = "part_002" THEN NoError ELSE error
            ELSE /\ isInstalled' = FALSE
                 /\ installationStep' = "installing" /\ pc' = "idle"
                 /\ error' = NoError
  /\ UNCHANGED <<useAuth, ethplorerService, page, svc, init, session, adminData, loading, submitted, inFlight>>

\* InstallPage.checkInstallationStatus, from the await on; when the status
\* is not installed the call of performInstallation starts in the same step
CheckStatusResolves ==
  /\ pc = "check"
  /\ svc = "part_004" => StatusRoom
  /\ \E F \in FaultSets(CheckSites(svc)) :
       \E r \in {SvcCheck(F)} :
       /\ db' = r.db
       /\ log' = r.log
       /\ IF r.thrown
            THEN \* the catch block of the page
              /\ UNCHANGED isInstalled
              /\ IF page = "part_000"
                   THEN /\ error' = "Failed to check installation status"
                        /\ UNCHANGED installationStep /\ pc' = "idle"
                 ELSE IF page = "part_001"
                   THEN /\ error' = "Database tables not found"
                        /\ installationStep' = "migration-needed" /\ pc' = "idle"
                 ELSE /\ error' = NoError
                      /\ installationStep' = "installing" /\ pc' = "install"
          ELSE IF r.ret
            THEN /\ isInstalled' = TRUE
                 /\ installationStep' = "completed" /\ pc' = "idle"
                 /\ error' = IF page = "part_002" THEN NoError ELSE error
            ELSE /\ isInstalled' = FALSE
                 /\ installationStep' = "installing" /\ pc' = "install"
                 /\ error' = NoError
  /\ UNCHANGED <<useAuth, ethplorerService, page, svc, init, session, adminData, loading, submitted, inFlight>>

\* a performInstallation handler that calls the service again after a
\* failure
PerformInstallationResolvesRetrying ==
  /\ pc = "install"
  /\ svc = "part_004" => StatusRoom
  /\ \E F \in FaultSets(PerformSites(svc)) :
       \E r \in {SvcPerform(F)} :
       /\ db' = r.db
       /\ log' = r.log
       /\ IF ~r.thrown /\ r.ret
            THEN installationStep' = "admin-setup" /\ error' = NoError
            ELSE /\ error' = IF r.thrown THEN "Installation failed (exception)"
                                         ELSE "Installation failed"
                 /\ installationStep' =
                      IF page = "part_001" THEN "migration-needed" ELSE installationStep
  /\ pc' = IF installationStep' = "admin-setup" THEN "idle" ELSE "install"
  /\ UNCHANGED <<useAuth, ethplorerService, page, svc, init, session, isInstalled, adminData, loading, submitted,
                 inFlight>>

\* a performInstallation handler that asks for the migrations in every
\* version of the page
PerformInstallationResolvesToMigration ==
  /\ pc = "install"
  /\ svc = "part_004" => StatusRoom
  /\ \E F \in FaultSets(PerformSites(svc)) :
       \E r \in {SvcPerform(F)} :
       /\ db' = r.db
       /\ log' = r.log
       /\ IF ~r.thrown /\ r.ret
            THEN installationStep' = "admin-setup" /\ error' = NoError
            ELSE /\ error' = IF r.thrown THEN "Installation failed (exception)"
                                         ELSE "Installation failed"
                 /\ installationStep' =
                      "migration-needed"
  /\ pc' = "idle"
  /\ UNCHANGED <<useAuth, ethplorerService, page, svc, init, session, isInstalled, adminData, loading, submitted,
                 inFlight>>

\* a performInstallation handler whose failure branch sets no error
PerformInstallationResolvesSilently ==
  /\ pc = "install"
  /\ svc = "part_004" => StatusRoom
  /\ \E F \in FaultSets(PerformSites(svc)) :
       \E r \in {SvcPerform(F)} :
       /\ db' = r.db
       /\ log' = r.log
       /\ installationStep' =
            IF ~r.thrown /\ r.ret THEN "admin-setup"
            ELSE IF page = "part_001" THEN "migration-needed" ELSE installationStep
  /\ error' = NoError
  /\ pc' = "idle"
  /\ UNCHANGED <<useAuth, ethplorerService, page, svc, init, session, isInstalled, adminData, loading, submitted,
                 inFlight>>

\* InstallPage.performInstallation, from the await on
PerformInstallationResolves ==
  /\ pc = "install"
  /\ svc = "part_004" => StatusRoom
  /\ \E F \in FaultSets(PerformSites(svc)) :
       \E r \in {SvcPerform(F)} :
       /\ db' = r.db
       /\ log' = r.log
       /\ IF ~r.thrown /\ r.ret
            THEN installationStep' = "admin-setup" /\ error' = NoError
            ELSE /\ error' = IF r.thrown THEN "Installation failed (exception)"
                                         ELSE "Installation failed"
                 /\ installationStep' =
                      IF page = "part_001" THEN "migration-needed" ELSE installationStep
  /\ pc' = "idle"
  /\ UNCHANGED <<useAuth, ethplorerService, page, svc, init, session, isInstalled, adminData, loading, submitted,
                 inFlight>>

\* the operator fills in the form (the inputs stay enabled while a
\* submission is outstanding)
TypeCredentials ==
  /\ installationStep = "admin-setup"
  /\ \E e \in Emails, p \in Passwords, c \in Passwords :
       /\ adminData' = [email |-> e, password |-> p, confirmPassword |-> c]
       /\ adminData' # adminData
  /\ log' = <<>>
  /\ UNCHANGED <<useAuth, ethplorerService, page, svc, init, db, session, installationStep, isInstalled, error,
                 loading, submitted, inFlight, pc>>

MinPasswordLength == 6

\* handleAdminSetup without the comparison of password and confirmation
handleAdminSetupNoMatchCheck ==
  /\ installationStep = "admin-setup"
  /\ ~loading
  /\ IF Len(adminData.password) < MinPasswordLength
       THEN /\ error' = "Password must be at least 6 characters long"
            /\ log' = <<Ev("handleAdminSetup", "", "rejected")>>
            /\ UNCHANGED <<loading, submitted, inFlight, pc>>
     ELSE /\ loading' = TRUE
          /\ error' = NoError
          /\ pc' = "signUp"
          /\ submitted' = [email |-> adminData.email, password |-> adminData.password]
          /\ inFlight' = inFlight + 1
          /\ log' = <<Ev("handleAdminSetup", "", "submitted")>>
  /\ UNCHANGED <<useAuth, ethplorerService, page, svc, init, db, session, installationStep, isInstalled, adminData>>

\* handleAdminSetup without the length check
handleAdminSetupNoLengthCheck ==
  /\ installationStep = "admin-setup"
  /\ ~loading
  /\ IF adminData.password # adminData.confirmPassword
       THEN /\ error' = "Passwords do not match"
            /\ log' = <<Ev("handleAdminSetup", "", "rejected")>>
            /\ UNCHANGED <<loading, submitted, inFlight, pc>>
     ELSE /\ loading' = TRUE
          /\ error' = NoError
          /\ pc' = "signUp"
          /\ submitted' = [email |-> adminData.email, password |-> adminData.password]
          /\ inFlight' = inFlight + 1
          /\ log' = <<Ev("handleAdminSetup", "", "submitted")>>
  /\ UNCHANGED <<useAuth, ethplorerService, page, svc, init, db, session, installationStep, isInstalled, adminData>>

\* handleAdminSetup with a submit control that stays enabled while a request
\* is outstanding
handleAdminSetupWhileLoading ==
  /\ installationStep = "admin-setup"
  /\ IF adminData.password # adminData.confirmPassword
       THEN /\ error' = "Passwords do not match"
            /\ log' = <<Ev("handleAdminSetup", "", "rejected")>>
            /\ UNCHANGED <<loading, submitted, inFlight, pc>>
     ELSE IF Len(adminData.password) < MinPasswordLength
       THEN /\ error' = "Password must be at least 6 characters long"
            /\ log' = <<Ev("handleAdminSetup", "", "rejected")>>
            /\ UNCHANGED <<loading, submitted, inFlight, pc>>
     ELSE /\ loading' = TRUE
          /\ error' = NoError
          /\ pc' = "signUp"
          /\ submitted' = [email |-> adminData.email, password |-> adminData.password]
          /\ inFlight' = inFlight + 1
          /\ log' = <<Ev("handleAdminSetup", "", "submitted")>>
  /\ UNCHANGED <<useAuth, ethplorerService, page, svc, init, db, session, installationStep, isInstalled, adminData>>

\* InstallPage.handleAdminSetup up to its first await
handleAdminSetup ==
  /\ installationStep = "admin-setup"
  /\ ~loading
  /\ IF adminData.password # adminData.confirmPassword
       THEN /\ error' = "Passwords do not match"
            /\ log' = <<Ev("handleAdminSetup", "", "rejected")>>
            /\ UNCHANGED <<loading, submitted, inFlight, pc>>
     ELSE IF Len(adminData.password) < MinPasswordLength
       THEN /\ error' = "Password must be at least 6 characters long"
            /\ log' = <<Ev("handleAdminSetup", "", "rejected")>>
            /\ UNCHANGED <<loading, submitted, inFlight, pc>>
     ELSE /\ loading' = TRUE
          /\ error' = NoError
          /\ pc' = "signUp"
          /\ submitted' = [email |-> adminData.email, password |-> adminData.password]
          /\ inFlight' = inFlight + 1
          /\ log' = <<Ev("handleAdminSetup", "", "submitted")>>
  /\ UNCHANGED <<useAuth, ethplorerService, page, svc, init, db, session, installationStep, isInstalled, adminData>>

\* adminService.getCurrentAdminUser(userId): the admin_users row of the
\* identity, if the caller can read one
getCurrentAdminUser(d, s, userId) ==
  {r \in Visible(d, s, "admin_users") : r.id = userId}

\* useAuth.loadAdminUser, run by the auth state listener once signUp has
\* opened a session: it reads the record and stores nothing in the backend
loadAdminUser(d, s, userId) ==
  [db |-> d, adminUser |-> IF s THEN getCurrentAdminUser(d, s, userId) ELSE {}]

\* a handler whose return on a signUp error skips setLoading(false)
SignUpResolvesWithoutFinally ==
  /\ pc = "signUp"
  /\ \E F \in FaultSets({<<"signUp", "auth">>}), sess \in BOOLEAN :
       LET k == Fault(F, <<"signUp", "auth">>) IN
       /\ log' = <<Ev("signUp", submitted.email, k)>>
       /\ IF k = "throw"
            THEN /\ error' = "Failed to create admin account"
                 /\ loading' = FALSE /\ pc' = "idle"
                 /\ inFlight' = inFlight - 1
                 /\ UNCHANGED <<db, session>>
          ELSE IF k = "error"
            THEN /\ error' = "signUpError.message"
                 /\ UNCHANGED loading /\ pc' = "idle"
                 /\ inFlight' = inFlight - 1
                 /\ UNCHANGED <<db, session>>
          ELSE /\ db' = loadAdminUser([db EXCEPT !.users = @ \cup {submitted.email}],
                                       session \/ sess, submitted.email).db
               /\ session' = (session \/ sess)
               /\ pc' = "complete"
               /\ UNCHANGED <<error, loading, inFlight>>
  /\ UNCHANGED <<useAuth, ethplorerService, page, svc, init, installationStep, isInstalled, adminData, submitted>>

\* useAuth.signUp resolves inside handleAdminSetup
SignUpResolves ==
  /\ pc = "signUp"
  /\ \E F \in FaultSets({<<"signUp", "auth">>}), sess \in BOOLEAN :
       LET k == Fault(F, <<"signUp", "auth">>) IN
       /\ log' = <<Ev("signUp", submitted.email, k)>>
       /\ IF k = "throw"
            THEN /\ error' = "Failed to create admin account"
                 /\ loading' = FALSE /\ pc' = "idle"
                 /\ inFlight' = inFlight - 1
                 /\ UNCHANGED <<db, session>>
          ELSE IF k = "error"
            THEN /\ error' = "signUpError.message"
                 /\ loading' = FALSE /\ pc' = "idle"
                 /\ inFlight' = inFlight - 1
                 /\ UNCHANGED <<db, session>>
          ELSE /\ db' = loadAdminUser([db EXCEPT !.users = @ \cup {submitted.email}],
                                       session \/ sess, submitted.email).db
               /\ session' = (session \/ sess)
               /\ pc' = "complete"
               /\ UNCHANGED <<error, loading, inFlight>>
  /\ UNCHANGED <<useAuth, ethplorerService, page, svc, init, installationStep, isInstalled, adminData, submitted>>

\* installationService.completeInstallation() resolves inside handleAdminSetup;
\* its result is not looked at
CompleteInstallationResolves ==
  /\ pc = "complete"
  /\ svc = "part_004" => StatusRoom
  /\ \E F \in FaultSets(CompleteSites(svc)) :
       \E r \in {SvcComplete(F)} :
       /\ db' = r.db
       /\ log' = r.log
  /\ installationStep' = "completed"
  /\ loading' = FALSE
  /\ inFlight' = inFlight - 1
  /\ pc' = "idle"
  /\ UNCHANGED <<useAuth, ethplorerService, page, svc, init, session, isInstalled, error, adminData, submitted>>

\* the "Check Again" control of part_001: window.location.reload()
CheckAgain ==
  /\ page = "part_001"
  /\ installationStep = "migration-needed"
  /\ Mounted
  /\ UNCHANGED <<useAuth, ethplorerService, page, svc, init, db, session>>

\* the operator opens the install page again (a new visit, a browser reload)
Revisit ==
  /\ ~(page = "part_001" /\ installationStep = "migration-needed")
  /\ ~(installationStep = "checking" /\ pc = "check")
  /\ Mounted
  /\ UNCHANGED <<useAuth, ethplorerService, page, svc, init, db, session>>

(***************************************************************************)
(* The manual path: the operator runs the migrations in the SQL editor.    *)
(***************************************************************************)
\* the first migration: plain CREATE TABLE / ADD CONSTRAINT / CREATE POLICY /
\* CREATE INDEX statements and the default rows; it fails as a whole when
\* one of its objects exists
Migration1(d) ==
  LET tbls == Relations \ {"admin_users"} IN
  IF \/ tbls \cap d.tables # {}
     \/ "airdrop_claims_status_check" \in d.constraints
    THEN SqlResult(FALSE, d)
    ELSE SqlResult(TRUE,
           [d EXCEPT !.tables = @ \cup tbls,
                     !.constraints = @ \cup {"airdrop_claims_status_check"},
                     !.rls = @ \cup tbls,
                     !.policies = @ \cup BasePolicies,
                     !.indexes = @ \cup BaseIndexes,
                     !.rows = [@ EXCEPT !["whitelist_tokens"] = MigrationWhitelist,
                                        !["admin_settings"] = DefaultSettings,
                                        ![StatusRel] = {StatusRow(d, FALSE)}]])

\* the second migration: admin_users (IF NOT EXISTS), then plain ADD
\* CONSTRAINT / CREATE POLICY
Migration2(d) ==
  IF \/ "admin_users_role_check" \in d.constraints
     \/ \E p \in d.policies : p.tbl = "admin_users"
    THEN SqlResult(FALSE, d)
    ELSE SqlResult(TRUE,
           [d EXCEPT !.tables = @ \cup {"admin_users"},
                     !.constraints = @ \cup {"admin_users_role_check"},
                     !.rls = @ \cup {"admin_users"},
                     !.policies = @ \cup AdminUserPolicies,
                     !.indexes = @ \cup AdminUserIndexes])

RunMigration ==
  /\ \E m \in {1, 2} :
       \E r \in {IF m = 1 THEN Migration1(db) ELSE Migration2(db)} :
       /\ r.ok
       /\ db' = r.db
  /\ log' = <<>>
  /\ UNCHANGED <<useAuth, ethplorerService, page, svc, init, session, installationStep, isInstalled, error,
                 adminData, loading, submitted, inFlight, pc>>

(***************************************************************************)
(* databaseInitService is an exported object: initializeDatabase can be    *)
(* called by any module of the build that holds the DatabaseInitService;   *)
(* here a caller runs it at start-up, before the page's status check.      *)
(***************************************************************************)
InitializeDatabaseCalled ==
  /\ svc = "part_004"
  /\ pc = "check"
  /\ StatusRoom
  /\ \E F \in FaultSets(InitSites) :
       \E r \in {IF init = "database-init.ts" THEN initializeDatabase(db, session, F)
                                              ELSE initializeDatabase_p3(db, session, F)} :
         /\ db' = r.db
         /\ log' = r.log
  /\ UNCHANGED <<useAuth, ethplorerService, page, svc, init, session, installationStep, isInstalled, error,
                 adminData, loading, submitted, inFlight, pc>>

Next ==
  \/ CheckStatusResolves
  \/ PerformInstallationResolves
  \/ TypeCredentials
  \/ handleAdminSetup
  \/ SignUpResolves
  \/ CompleteInstallationResolves
  \/ CheckAgain
  \/ Revisit
  \/ RunMigration
  \/ InitializeDatabaseCalled

Spec == Init /\ [][Next]_vars

(***************************************************************************)
(* DatabaseService of part_004: the airdrop claims.  Each operation is one *)
(* backend call, so an interleaving of operations is a sequence of them.   *)
(***************************************************************************)
MaxClaims == 2

Wallets == {"0xab", "0xAB", "0xcd"}

ClaimStatuses == {"pending", "completed", "failed"}

\* String.prototype.toLowerCase on the wallet addresses in use
toLowerCase(w) == IF w = "0xAB" THEN "0xab" ELSE w

\* a project provisioned by initializeDatabase, with or without row-level
\* security and policies
ClaimsBackends ==
  LET t == createTablesIfNotExist(FreshBackend(TRUE), {}).db
  IN  {t, createIndexes(enableRLSAndCreatePolicies(t, {}).db, {}).db}

\* the check constraint airdrop_claims_status_check
StatusAccepted(d, st) ==
  "airdrop_claims_status_check" \in d.constraints => st \in ClaimStatuses

\* createAirdropClaim: .insert({wallet_address, ..., status}).select('id').single()
createAirdropClaim(d, s, w, st, F) ==
  IF ~StatusAccepted(d, st)
    THEN Res(d, <<Ev("createAirdropClaim", w, "null")>>, FALSE, FALSE)
    ELSE
    Bind(Insert(d, s, "airdrop_claims",
                {[id |-> NextId(d, "airdrop_claims"), wallet_address |-> w, status |-> st]},
                <<"createAirdropClaim", "insert">>, F), LAMBDA i :
      IF i.k = "throw"
        THEN Res(d, <<Ev("createAirdropClaim", w, "throw")>>, FALSE, TRUE)
        ELSE Res(i.db, <<Ev("createAirdropClaim", w, IF i.k = "ok" THEN "id" ELSE "null")>>,
                 i.k = "ok", FALSE))

\* hasClaimedAirdrop: a completed row of the lower-cased address exists; an
\* error reads as "not claimed"
hasClaimedAirdrop(d, s, w, F) ==
  Bind(Select(d, s, "airdrop_claims", <<"hasClaimedAirdrop", "select">>, F), LAMBDA r :
    IF r.k = "throw"
      THEN Res(d, <<Ev("hasClaimedAirdrop", w, "throw")>>, FALSE, TRUE)
      ELSE
      Bind(r.k = "ok" /\ \E c \in r.rows : /\ c.wallet_address = toLowerCase(w)
                                           /\ c.status = "completed", LAMBDA ret :
        Res(d, <<Ev("hasClaimedAirdrop", w, B2S(ret))>>, ret, FALSE)))

\* updateAirdropClaim: .update({...updates, updated_at}).eq('id', id); a row
\* the caller may not update is silently left alone
updateAirdropClaim(d, s, id, st, F) ==
  LET k == Fault(F, <<"updateAirdropClaim", "update">>) IN
  IF k = "throw" THEN Res(d, <<Ev("updateAirdropClaim", st, "throw")>>, FALSE, TRUE)
  ELSE IF k = "error" \/ "airdrop_claims" \notin d.tables \/ ~StatusAccepted(d, st)
    THEN Res(d, <<Ev("updateAirdropClaim", st, "false")>>, FALSE, FALSE)
  ELSE IF ~Allowed(d, s, "airdrop_claims", "UPDATE")
    THEN Res(d, <<Ev("updateAirdropClaim", st, "true")>>, TRUE, FALSE)
  ELSE Res([d EXCEPT !.rows["airdrop_claims"] =
              {IF c.id = id THEN [c EXCEPT !.status = st] ELSE c : c \in @}],
           <<Ev("updateAirdropClaim", st, "true")>>, TRUE, FALSE)

\* the application after installation, used by a visitor or by the
\* administrator
ClaimsInit ==
  /\ page = "part_000"
  /\ svc = "part_004"
  /\ init = "database-init.ts"
  /\ db \in ClaimsBackends
  /\ session \in BOOLEAN
  /\ installationStep = "completed"
  /\ isInstalled = TRUE
  /\ error = NoError
  /\ adminData = EmptyAdminData
  /\ loading = FALSE
  /\ submitted = NothingSubmitted
  /\ inFlight = 0
  /\ pc = "idle"
  /\ log = <<>>
  /\ useAuth = NoAuth
  /\ ethplorerService = NoEth

CreateAirdropClaimCalled ==
  /\ Cardinality(db.rows["airdrop_claims"]) < MaxClaims
  /\ \E w \in Wallets, st \in ClaimStatuses \cup {"done"} :
       \E F \in FaultSets({<<"createAirdropClaim", "insert">>}) :
         \E r \in {createAirdropClaim(db, session, w, st, F)} :
           db' = r.db /\ log' = r.log
  /\ UNCHANGED <<useAuth, ethplorerService, page, svc, init, session, installationStep, isInstalled, error,
                 adminData, loading, submitted, inFlight, pc>>

HasClaimedAirdropCalled ==
  /\ \E w \in Wallets :
       \E F \in FaultSets({<<"hasClaimedAirdrop", "select">>}) :
         \E r \in {hasClaimedAirdrop(db, session, w, F)} :
           db' = r.db /\ log' = r.log
  /\ UNCHANGED <<useAuth, ethplorerService, page, svc, init, session, installationStep, isInstalled, error,
                 adminData, loading, submitted, inFlight, pc>>

UpdateAirdropClaimCalled ==
  /\ \E id \in 1..MaxClaims, st \in ClaimStatuses \cup {"done"} :
       \E F \in FaultSets({<<"updateAirdropClaim", "update">>}) :
         \E r \in {updateAirdropClaim(db, session, id, st, F)} :
           db' = r.db /\ log' = r.log
  /\ UNCHANGED <<useAuth, ethplorerService, page, svc, init, session, installationStep, isInstalled, error,
                 adminData, loading, submitted, inFlight, pc>>

ClaimsNext ==
  \/ CreateAirdropClaimCalled
  \/ HasClaimedAirdropCalled
  \/ UpdateAirdropClaimCalled

ClaimsSpec == ClaimsInit /\ [][ClaimsNext]_vars

(***************************************************************************)
(* DatabaseService of part_004: the settings.                              *)
(***************************************************************************)
SettingKeys == {"platform_name", "theme"}

SettingValues == {"AirdropHub", "Hub2"}

\* getSetting: .select('value').eq('key', key).single(); an error (also: no
\* row, several rows) reads as null
getSetting(d, s, key, F) ==
  Bind(Select(d, s, "admin_settings", <<"getSetting", "single">>, F), LAMBDA r :
    IF r.k = "throw"
      THEN Res(d, <<Ev("getSetting", key, "throw")>>, "null", TRUE)
      ELSE
      Bind({c \in r.rows : c.key = key}, LAMBDA hit :
        Bind(IF r.k = "ok" /\ Cardinality(hit) = 1
               THEN (CHOOSE c \in hit : TRUE).value ELSE "null", LAMBDA ret :
          Res(d, <<Ev("getSetting", key, ret)>>, ret, FALSE))))

\* setSetting: .upsert({key, value, updated_at}) with no onConflict option:
\* the conflict target is the primary key id, which the row does not carry,
\* so the statement is an insert and the unique key column can reject it
setSetting(d, s, key, value, F) ==
  Bind(Insert(d, s, "admin_settings", {[key |-> key, value |-> value]},
              <<"setSetting", "upsert">>, F), LAMBDA i :
    IF i.k = "throw"
      THEN Res(d, <<Ev("setSetting", key, "throw")>>, FALSE, TRUE)
      ELSE Res(i.db, <<Ev("setSetting", key, B2S(i.k = "ok"))>>, i.k = "ok", FALSE))

\* a provisioned project, with or without row-level security, with or
\* without the default settings
SettingsBackends ==
  LET t == createTablesIfNotExist(FreshBackend(TRUE), {}).db
      p == createIndexes(enableRLSAndCreatePolicies(t, {}).db, {}).db
  IN  {t, p, insertDefaultData(t, TRUE, {}).db, insertDefaultData(p, TRUE, {}).db}

SettingsInit ==
  /\ page = "part_000"
  /\ svc = "part_004"
  /\ init = "database-init.ts"
  /\ db \in SettingsBackends
  /\ session \in BOOLEAN
  /\ installationStep = "completed"
  /\ isInstalled = TRUE
  /\ error = NoError
  /\ adminData = EmptyAdminData
  /\ loading = FALSE
  /\ submitted = NothingSubmitted
  /\ inFlight = 0
  /\ pc = "idle"
  /\ log = <<>>
  /\ useAuth = NoAuth
  /\ ethplorerService = NoEth

SetSettingCalled ==
  /\ \E key \in SettingKeys, value \in SettingValues :
       \E F \in FaultSets({<<"setSetting", "upsert">>}) :
         \E r \in {setSetting(db, session, key, value, F)} :
           db' = r.db /\ log' = r.log
  /\ UNCHANGED <<useAuth, ethplorerService, page, svc, init, session, installationStep, isInstalled, error,
                 adminData, loading, submitted, inFlight, pc>>

GetSettingCalled ==
  /\ \E key \in SettingKeys :
       \E F \in FaultSets({<<"getSetting", "single">>}) :
         \E r \in {getSetting(db, session, key, F)} :
           db' = r.db /\ log' = r.log
  /\ UNCHANGED <<useAuth, ethplorerService, page, svc, init, session, installationStep, isInstalled, error,
                 adminData, loading, submitted, inFlight, pc>>

SettingsNext ==
  \/ SetSettingCalled
  \/ GetSettingCalled

SettingsSpec == SettingsInit /\ [][SettingsNext]_vars

(***************************************************************************)
(* The useAuth hook of the application: the mount effect (getSession, the  *)
(* onAuthStateChange listener), loadAdminUser and signOut.  A step is what *)
(* runs between two awaits; the responses of the pending calls arrive in   *)
(* any order.                                                              *)
(***************************************************************************)
\* loadAdminUser calls that await their response at one time
MaxPending == 2

UserIds == {"u1", "u2"}

NoUser == "null"

\* the admin_users record of the administrator u1; u2 has none
AdminRecord == [id |-> "u1", role |-> "admin", is_active |-> TRUE]

\* a provisioned project with its administrator
AuthBackend ==
  LET t == createTablesIfNotExist(FreshBackend(TRUE), {}).db
      p == createIndexes(enableRLSAndCreatePolicies(t, {}).db, {}).db
  IN  [p EXCEPT !.rows["admin_users"] = {AdminRecord}, !.users = UserIds]

\* isAdmin of the returned object: adminUser?.role === 'admin' && adminUser?.is_active
isAdmin(a) == \E r \in a.adminUser : r.role = "admin" /\ r.is_active

\* xs without its i-th element
Without(xs, i) == [j \in 1..(Len(xs) - 1) |-> IF j < i THEN xs[j] ELSE xs[j + 1]]

\* the hook as mounted (useState initial values), the effect's getSession
\* pending; stored is the user of the session the auth client holds
AuthInit ==
  /\ page = "part_000"
  /\ svc = "part_004"
  /\ init = "database-init.ts"
  /\ db = AuthBackend
  /\ \E u \in UserIds \cup {NoUser} :
       /\ session = (u # NoUser)
       /\ useAuth = [user |-> NoUser, adminUser |-> {}, loading |-> TRUE,
                     getSession |-> "pending", pending |-> <<>>,
                     signOut |-> "idle", stored |-> u]
  /\ installationStep = "completed"
  /\ isInstalled = TRUE
  /\ error = NoError
  /\ adminData = EmptyAdminData
  /\ loading = FALSE
  /\ submitted = NothingSubmitted
  /\ inFlight = 0
  /\ pc = "idle"
  /\ log = <<>>
  /\ ethplorerService = NoEth

\* the then-callback of the initial getSession: loadAdminUser is started and
\* not awaited
GetSessionResolves ==
  /\ useAuth.getSession = "pending"
  /\ Len(useAuth.pending) < MaxPending
  /\ useAuth' =
       [useAuth EXCEPT
          !.user = useAuth.stored,
          !.pending = IF useAuth.stored # NoUser
                        THEN Append(@, [userId |-> useAuth.stored, awaited |-> FALSE])
                        ELSE @,
          !.loading = FALSE,
          !.getSession = "done"]
  /\ log' = <<Ev("getSession", "", useAuth.stored)>>
  /\ UNCHANGED <<ethplorerService, page, svc, init, db, session, installationStep,
                 isInstalled, error, adminData, loading, submitted, inFlight, pc>>

\* the onAuthStateChange listener receives a session event (u is its user,
\* NoUser when it carries no session) and runs up to its await
AuthStateChange ==
  /\ \E u \in UserIds \cup {NoUser} :
       /\ u # NoUser => Len(useAuth.pending) < MaxPending
       /\ useAuth' =
            IF u # NoUser
              THEN [useAuth EXCEPT
                      !.stored = u,
                      !.user = u,
                      !.pending = Append(@, [userId |-> u, awaited |-> TRUE])]
              ELSE [useAuth EXCEPT
                      !.stored = u,
                      !.user = u,
                      !.adminUser = {},
                      !.loading = FALSE]
       /\ session' = (u # NoUser)
       /\ log' = <<Ev("onAuthStateChange", "", u)>>
  /\ UNCHANGED <<ethplorerService, page, svc, init, db, installationStep,
                 isInstalled, error, adminData, loading, submitted, inFlight, pc>>

\* the response of a pending loadAdminUser arrives: setAdminUser, and the
\* listener that awaited it goes on to setLoading(false)
LoadAdminUserResolves ==
  /\ \E i \in 1..Len(useAuth.pending) :
       LET q == useAuth.pending[i] IN
       /\ useAuth' =
            [useAuth EXCEPT
               !.adminUser = loadAdminUser(db, TRUE, q.userId).adminUser,
               !.loading = IF q.awaited THEN FALSE ELSE @,
               !.pending = Without(@, i)]
       /\ log' = <<Ev("loadAdminUser", q.userId, "void")>>
  /\ UNCHANGED <<ethplorerService, page, svc, init, db, session, installationStep,
                 isInstalled, error, adminData, loading, submitted, inFlight, pc>>

\* signOut is called: supabase.auth.signOut() is awaited
SignOutCalled ==
  /\ useAuth.signOut = "idle"
  /\ useAuth' = [useAuth EXCEPT !.signOut = "pending"]
  /\ log' = <<>>
  /\ UNCHANGED <<ethplorerService, page, svc, init, db, session, installationStep,
                 isInstalled, error, adminData, loading, submitted, inFlight, pc>>

\* supabase.auth.signOut() resolves: the session is removed (the listener is
\* told so with its own event) or an error is returned; setAdminUser(null)
\* follows in both cases
SignOutResolves ==
  /\ useAuth.signOut = "pending"
  /\ \E k \in {"ok", "error"} :
       /\ useAuth' = [useAuth EXCEPT
                        !.signOut = "idle",
                        !.adminUser = {},
                        !.stored = IF k = "ok" THEN NoUser ELSE @]
       /\ session' = IF k = "ok" THEN FALSE ELSE session
       /\ log' = <<Ev("signOut", "", k)>>
  /\ UNCHANGED <<ethplorerService, page, svc, init, db, installationStep,
                 isInstalled, error, adminData, loading, submitted, inFlight, pc>>

AuthNext ==
  \/ GetSessionResolves
  \/ AuthStateChange
  \/ LoadAdminUserResolves
  \/ SignOutCalled
  \/ SignOutResolves

AuthSpec == AuthInit /\ [][AuthNext]_vars

(***************************************************************************)
(* EthplorerService of part_003: the API key.  The constructor starts      *)
(* loadApiKey and does not await it; the getSetting query of loadApiKey    *)
(* is answered by the backend in one step and its answer is delivered to   *)
(* the object in a later one.                                              *)
(***************************************************************************)
ApiKeys == {"k1", "k2"}

ApiKeySetting == "ethplorer_api_key"

Addresses == {"0xab"}

\* the object after its constructor ran: apiKey = 'freekey', loadApiKey pending
NewEthplorerService ==
  [apiKey |-> "freekey", loadApiKey |-> "pending", savedKey |-> "null",
   setApiKey |-> "idle", argument |-> "none", resolvedWith |-> "none",
   requestKey |-> "none"]

EthInit ==
  /\ page = "part_000"
  /\ svc = "part_004"
  /\ init = "database-init.ts"
  /\ db \in SettingsBackends
  /\ session \in BOOLEAN
  /\ installationStep = "completed"
  /\ isInstalled = TRUE
  /\ error = NoError
  /\ adminData = EmptyAdminData
  /\ loading = FALSE
  /\ submitted = NothingSubmitted
  /\ inFlight = 0
  /\ pc = "idle"
  /\ log = <<>>
  /\ useAuth = NoAuth
  /\ ethplorerService = NewEthplorerService

\* the backend answers the getSetting query of loadApiKey
LoadApiKeyReads ==
  /\ ethplorerService.loadApiKey = "pending"
  /\ \E F \in FaultSets({<<"getSetting", "single">>}) :
       \E r \in {getSetting(db, session, ApiKeySetting, F)} :
         /\ ethplorerService' =
              IF r.thrown
                THEN [ethplorerService EXCEPT !.loadApiKey = "done"]
                ELSE [ethplorerService EXCEPT !.loadApiKey = "answered",
                                              !.savedKey = r.ret]
         /\ log' = r.log
  /\ UNCHANGED <<useAuth, page, svc, init, db, session, installationStep,
                 isInstalled, error, adminData, loading, submitted, inFlight, pc>>

\* loadApiKey after its await: if (savedKey) this.apiKey = savedKey
LoadApiKeyResolves ==
  /\ ethplorerService.loadApiKey = "answered"
  /\ ethplorerService' =
       [ethplorerService EXCEPT
          !.loadApiKey = "done",
          !.apiKey = IF ethplorerService.savedKey # "null"
                       THEN ethplorerService.savedKey ELSE @]
  /\ log' = <<Ev("loadApiKey", "", "void")>>
  /\ UNCHANGED <<useAuth, page, svc, init, db, session, installationStep,
                 isInstalled, error, adminData, loading, submitted, inFlight, pc>>

\* setApiKey up to its await: the key is assigned, setSetting is pending
SetApiKeyCalled ==
  /\ ethplorerService.setApiKey = "idle"
  /\ \E k \in ApiKeys :
       ethplorerService' =
         [ethplorerService EXCEPT !.apiKey = k, !.setApiKey = "pending",
                                  !.argument = k]
  /\ log' = <<>>
  /\ UNCHANGED <<useAuth, page, svc, init, db, session, installationStep,
                 isInstalled, error, adminData, loading, submitted, inFlight, pc>>

\* setSetting resolves, and with it setApiKey (it rejects when setSetting
\* throws)
SetApiKeyResolves ==
  /\ ethplorerService.setApiKey = "pending"
  /\ \E F \in FaultSets({<<"setSetting", "upsert">>}) :
       \E r \in {setSetting(db, session, ApiKeySetting, ethplorerService.argument, F)} :
         /\ db' = r.db
         /\ ethplorerService' =
              [ethplorerService EXCEPT
                 !.setApiKey = "idle",
                 !.resolvedWith = IF r.thrown THEN "none"
                                  ELSE ethplorerService.argument]
         /\ log' = r.log \o <<Ev("setApiKey", ethplorerService.argument,
                                 IF r.thrown THEN "throw" ELSE "void")>>
  /\ UNCHANGED <<useAuth, page, svc, init, session, installationStep,
                 isInstalled, error, adminData, loading, submitted, inFlight, pc>>

\* getAddressInfo issues its request with the key the object holds
GetAddressInfoCalled ==
  /\ \E a \in Addresses :
       log' = <<Ev("getAddressInfo", a, ethplorerService.apiKey)>>
  /\ ethplorerService' = [ethplorerService EXCEPT !.requestKey = ethplorerService.apiKey]
  /\ UNCHANGED <<useAuth, page, svc, init, db, session, installationStep,
                 isInstalled, error, adminData, loading, submitted, inFlight, pc>>

\* getTokenInfo issues its request with the key the object holds
GetTokenInfoCalled ==
  /\ \E a \in Addresses :
       log' = <<Ev("getTokenInfo", a, ethplorerService.apiKey)>>
  /\ ethplorerService' = [ethplorerService EXCEPT !.requestKey = ethplorerService.apiKey]
  /\ UNCHANGED <<useAuth, page, svc, init, db, session, installationStep,
                 isInstalled, error, adminData, loading, submitted, inFlight, pc>>

EthNext ==
  \/ LoadApiKeyReads
  \/ LoadApiKeyResolves
  \/ SetApiKeyCalled
  \/ SetApiKeyResolves
  \/ GetAddressInfoCalled
  \/ GetTokenInfoCalled

EthSpec == EthInit /\ [][EthNext]_vars

(***************************************************************************)
(* The wizard over InstallationService of installation.ts, from its mount  *)
(* to its unmount: a reload by the browser is left out (the "Check Again"  *)
(* control stays), and every backend call the page awaits is answered      *)
(* (with a result, an error or an exception).                              *)
(***************************************************************************)
MountedInit == Init /\ svc = "installation.ts"

MountedNext ==
  \/ CheckStatusResolves
  \/ PerformInstallationResolves
  \/ TypeCredentials
  \/ handleAdminSetup
  \/ SignUpResolves
  \/ CompleteInstallationResolves
  \/ CheckAgain
  \/ RunMigration

MountedSpec ==
  /\ MountedInit
  /\ [][MountedNext]_vars
  /\ WF_vars(CheckStatusResolves)
  /\ WF_vars(PerformInstallationResolves)

(***************************************************************************)
(* Properties.                                                             *)
(***************************************************************************)
\* routine fn was invoked in the step recorded by l
Called(l, fn) == \E i \in 1..Len(l) : l[i].fn = fn

\* routine fn was invoked in the step recorded by l and answered ret
Returned(l, fn, ret) == \E i \in 1..Len(l) : l[i].fn = fn /\ l[i].ret = ret

\* an installation_status row reads is_installed = true
InstalledRow(d) == \E r \in d.rows[StatusRel] : r.is_installed

\* C1: from a fresh backend the wizard of part_001 over installation.ts
\* that has reached `completed` through the admin-setup step (the status
\* check never answered "installed") finds an installation_status row that
\* reads is_installed = true.
C1_CompletedImpliesInstalledRow ==
  (/\ page = "part_001" /\ svc = "installation.ts"
   /\ installationStep = "completed" /\ ~isInstalled)
  => InstalledRow(db)

\* C2: an installation_status row reads is_installed = true only if a
\* signUp call has completed without error before (an identity exists).
C2_InstalledOnlyAfterSignUp ==
  InstalledRow(db) => db.users # {}

\* the latest step was a failure inside handleAdminSetup: a validation
\* failure, a signUp that failed, or a completeInstallation that failed
AdminSetupFailed ==
  \/ Returned(log, "handleAdminSetup", "rejected")
  \/ Returned(log, "signUp", "error")
  \/ Returned(log, "signUp", "throw")
  \/ Returned(log, "completeInstallation", "false")

\* C9: after every failure inside handleAdminSetup (validation, signUp,
\* completeInstallation), the wizard of part_000 over installation.ts is in
\* `admin-setup` with a non-null error displayed.
C9_FailureStaysInAdminSetup ==
  (page = "part_000" /\ svc = "installation.ts" /\ AdminSetupFailed)
  => (installationStep = "admin-setup" /\ error # NoError)

\* a matching password shorter than six characters is in the form
ShortMatchingPassword ==
  /\ adminData.password = adminData.confirmPassword
  /\ Len(adminData.password) < 6

\* C10: handleAdminSetup with a matching password shorter than 6 characters
\* rejects with the "too short" error, starts no remote call (no await is
\* pending, the backing store and the session are untouched) and leaves the
\* step at `admin-setup`; no signUp or completeInstallation is ever pending
\* for a password shorter than 6 characters.
C10_ShortPasswordRejected ==
  /\ [](pc \in {"signUp", "complete"} => Len(submitted.password) >= 6)
  /\ [][ (ShortMatchingPassword /\ Called(log', "handleAdminSetup"))
           => /\ log' = <<Ev("handleAdminSetup", "", "rejected")>>
              /\ error' = "Password must be at least 6 characters long"
              /\ installationStep' = "admin-setup"
              /\ pc' = "idle" /\ ~loading'
              /\ db' = db /\ session' = session /\ adminData' = adminData ]_vars

\* the form holds "abc"/"abc" and handleAdminSetup has just rejected it
C10_Witness ==
  /\ adminData.password = "abc" /\ adminData.confirmPassword = "abc"
  /\ log = <<Ev("handleAdminSetup", "", "rejected")>>
  /\ error = "Password must be at least 6 characters long"

\* the routines of the provisioner and of the seeder
ProvisioningFns ==
  {"createExecSqlFunction", "createTablesIfNotExist", "enableRLSAndCreatePolicies",
   "createIndexes", "insertDefaultData"}

\* the store holds one installation_status row and it reads installed
ReadsInstalled(d) ==
  /\ Cardinality(d.rows[StatusRel]) = 1
  /\ \A r \in d.rows[StatusRel] : r.is_installed

\* C3: when the status check of the page resolves on a store whose
\* installation_status row already reads is_installed = true, the wizard
\* goes to `completed`, performInstallation is not started, and the step has
\* invoked neither a provisioner routine nor the seeder.
C3_InstalledSkipsProvisioning ==
  [][ (pc = "check" /\ pc' # "check" /\ ReadsInstalled(db))
        => /\ installationStep' = "completed"
           /\ pc' # "install"
           /\ \A i \in 1..Len(log') : log'[i].fn \notin ProvisioningFns ]_vars

\* the step recorded by l was a call of initializeDatabase that ran the seeder
SeedingCall(l) ==
  /\ Len(l) > 0
  /\ l[Len(l)].fn = "initializeDatabase"
  /\ Called(l, "insertDefaultData")

\* C4: when insertDefaultData has run and runs again with no other writer in
\* between, the second run inserts into no relation that is already
\* non-empty (so the rows after the second run are those after the first).
C4_SeedTwiceAddsNothing ==
  [][ (SeedingCall(log) /\ SeedingCall(log'))
        => \A rel \in Relations :
             db.rows[rel] # {} => db'.rows[rel] = db.rows[rel] ]_vars

\* the relations the DatabaseInitService in force requires
RequiredOf(v) == IF v = "part_003" THEN Range(basicTables) ELSE Relations

\* C6: whenever a step invokes insertDefaultData, relation creation has
\* answered true earlier in the step, or the prober has earlier in the step
\* confirmed every required relation.
C6_SeedOnlyAfterCreation ==
  \A i \in 1..Len(log) :
     log[i].fn = "insertDefaultData" =>
       \/ \E j \in 1..(i - 1) : log[j] = Ev("createTablesIfNotExist", "", "true")
       \/ \A t \in RequiredOf(init) :
             \E j \in 1..(i - 1) : log[j] = Ev("tableExists", t, "true")

\* the schema one complete provisioning run leaves
FullSchema(d) ==
  /\ d.tables = Relations
  /\ d.constraints = {"airdrop_claims_status_check", "admin_users_role_check"}
  /\ d.rls = Relations
  /\ d.policies = CreatedPolicies
  /\ d.indexes = CreatedIndexes

\* the three provisioning routines in the order of initializeDatabase, every
\* exec_sql call answering
Provision(d) ==
  LET a == createTablesIfNotExist(d, {})
      b == enableRLSAndCreatePolicies(a.db, {})
      c == createIndexes(b.db, {})
  IN  [ok |-> a.ret /\ b.ret /\ c.ret, db |-> c.db]

\* the latest step ran the three provisioning routines and each answered true
ProvisioningRunCompleted ==
  /\ Returned(log, "createTablesIfNotExist", "true")
  /\ Returned(log, "enableRLSAndCreatePolicies", "true")
  /\ Returned(log, "createIndexes", "true")

\* C5: on every store the flow can leave behind (untouched, migrated by
\* hand, provisioned in part or in full) where exec_sql is offered, a
\* provisioning run succeeds, yields exactly the full schema, keeps every
\* row, and a further run changes nothing; a step in which the three
\* routines answered true leaves the full schema.
C5_ProvisioningIdempotent ==
  /\ db.execSql =>
       LET r == Provision(db) IN
         /\ r.ok
         /\ FullSchema(r.db)
         /\ r.db.rows = db.rows
         /\ Provision(r.db) = [ok |-> TRUE, db |-> r.db]
  /\ ProvisioningRunCompleted => FullSchema(db)

\* a provisioning run has completed on a store that already held rows
\* written by the first migration
C5_Witness ==
  /\ ProvisioningRunCompleted
  /\ \E r \in db.rows[StatusRel] : ~r.is_installed
  /\ FullSchema(db)

\* C7: on a backend without relations every probe of a required relation
\* answers false; after a step in which createTablesIfNotExist answered true
\* a probe of each required relation answers true.
C7_ProbeBeforeAndAfterProvisioning ==
  /\ [][ db.tables = {} =>
           \A i \in 1..Len(log') :
              (log'[i].fn = "tableExists" /\ ~Returned(SubSeq(log', 1, i - 1),
                                                      "createTablesIfNotExist", "true"))
                => log'[i].ret = "false" ]_vars
  /\ [](db.tables = {} =>
          \A t \in Relations : ~tableExists(db, session, t, <<"probe", t>>, {}))
  /\ [](Returned(log, "createTablesIfNotExist", "true") =>
          \A t \in Relations : tableExists(db, session, t, <<"probe", t>>, {}))

\* a step probed the five relations of a fresh backend (all absent) and then
\* createTablesIfNotExist answered true
C7_Witness ==
  /\ \A t \in Relations : Ev("tableExists", t, "false") \in Range(log)
  /\ Returned(log, "createTablesIfNotExist", "true")
  /\ db.tables = Relations

\* C8: with database-init.ts, when a required relation is missing and the
\* exec_sql call of createExecSqlFunction answers with an error,
\* initializeDatabase throws, checkAndInitialize (when it is the caller)
\* answers false, the seeder is not invoked, no relation and no row is
\* added, the wizard does not reach `admin-setup`, and the wizard of
\* part_001 whose performInstallation resolves this way is in
\* `migration-needed` with an error displayed.
C8_ProvisionerFailsClosed ==
  [][ (/\ init = "database-init.ts"
       /\ ~(Relations \subseteq db.tables)
       /\ Returned(log', "createExecSqlFunction", "false"))
        => /\ Returned(log', "initializeDatabase", "throw")
           /\ ~Returned(log', "checkAndInitialize", "true")
           /\ ~Called(log', "insertDefaultData")
           /\ db'.tables = db.tables
           /\ db'.rows = db.rows
           /\ installationStep' # "admin-setup"
           /\ (page = "part_001" /\ pc = "install")
                => (installationStep' = "migration-needed" /\ error' # NoError) ]_vars

\* the wizard of part_001 is in `migration-needed` after a performInstallation
\* in which exec_sql was unavailable and relations were missing
C8_Witness ==
  /\ page = "part_001" /\ init = "database-init.ts"
  /\ installationStep = "migration-needed" /\ error # NoError
  /\ Returned(log, "createExecSqlFunction", "false")
  /\ Returned(log, "checkAndInitialize", "false")
  /\ Returned(log, "performInstallation", "false")
  /\ ~(Relations \subseteq db.tables)

\* the password in the form differs from its confirmation
MismatchedPassword == adminData.password # adminData.confirmPassword

\* C11: handleAdminSetup with a password that differs from its confirmation
\* rejects with the "passwords do not match" error, starts no remote call
\* (no await is pending, the backing store and the session are untouched)
\* and leaves the step at `admin-setup`.
C11_MismatchRejected ==
  [][ (MismatchedPassword /\ Called(log', "handleAdminSetup"))
        => /\ log' = <<Ev("handleAdminSetup", "", "rejected")>>
           /\ error' = "Passwords do not match"
           /\ installationStep' = "admin-setup"
           /\ pc' = "idle" /\ ~loading'
           /\ submitted' = submitted
           /\ db' = db /\ session' = session /\ adminData' = adminData ]_vars

\* the form holds "secret1"/"secret2" and handleAdminSetup has just rejected it
C11_Witness ==
  /\ adminData.password = "secret1" /\ adminData.confirmPassword = "secret2"
  /\ log = <<Ev("handleAdminSetup", "", "rejected")>>
  /\ error = "Passwords do not match"

\* C12: when the performInstallation call of the page resolves true the step
\* becomes `admin-setup`; when it resolves false or throws the step becomes
\* `migration-needed` (part_001) or stays `installing` (part_000, part_002)
\* and an error is displayed; a mounted wizard leaves `installing` for no
\* other step (a reload of the page mounts a new wizard in `checking`).
C12_TransitionsOutOfInstalling ==
  /\ [][ (pc = "install" /\ pc' = "idle")
           => /\ installationStep = "installing"
              /\ Called(log', "performInstallation")
              /\ IF Returned(log', "performInstallation", "true")
                   THEN installationStep' = "admin-setup"
                   ELSE /\ error' # NoError
                        /\ installationStep' =
                             IF page = "part_001" THEN "migration-needed"
                                                  ELSE "installing" ]_vars
  /\ [][ (installationStep = "installing" /\ pc' # "check")
           => /\ installationStep' \in {"installing", "admin-setup", "migration-needed"}
              /\ installationStep' = "migration-needed" => page = "part_001"
              /\ installationStep' # "installing" => pc = "install" ]_vars

\* an automated variant rests in `installing` with the error of a failed
\* performInstallation
C12_Witness ==
  /\ page \in {"part_000", "part_002"}
  /\ installationStep = "installing" /\ pc = "idle"
  /\ Returned(log, "performInstallation", "false")
  /\ error # NoError

\* in the step recorded by l the seeder was invoked after relation creation
\* answered true or after the prober confirmed every relation of req
SeededAfterProvisioning(l, req) ==
  \E i \in 1..Len(l) :
     /\ l[i].fn = "insertDefaultData"
     /\ \/ \E j \in 1..(i - 1) : l[j] = Ev("createTablesIfNotExist", "", "true")
        \/ \A t \in req : \E j \in 1..(i - 1) : l[j] = Ev("tableExists", t, "true")

C14_NoDeadEnd ==
  error # NoError => (ENABLED handleAdminSetup \/ ENABLED CheckAgain)

\* C15: at most one signUp / completeInstallation sequence of the mounted
\* wizard is in flight at a time: the submit control is disabled (loading is
\* true) exactly from the issue of the first remote call until the sequence
\* resolves, and a submission is accepted only while none is in flight.
C15_SingleSubmissionInFlight ==
  /\ [](inFlight <= 1)
  /\ [](loading <=> inFlight = 1)
  /\ [](loading <=> pc \in {"signUp", "complete"})
  /\ [](loading => ~ENABLED handleAdminSetup)
  /\ [][inFlight' > inFlight => (~loading /\ inFlight = 0 /\ loading')]_vars

\* the sign-up succeeded and completeInstallation is outstanding: the sequence
\* is still the only one in flight and the submit control is disabled
C15_Witness ==
  /\ pc = "complete"
  /\ loading
  /\ inFlight = 1
  /\ Returned(log, "signUp", "ok")
  /\ ~ENABLED handleAdminSetup

\* the exec_sql routines initializeDatabase runs after createExecSqlFunction
ExecSqlRoutines == {"createTablesIfNotExist", "enableRLSAndCreatePolicies", "createIndexes"}

\* C16: when an exec_sql call made by initializeDatabase (table creation,
\* row-level security and policies, indexes) returns an error or throws,
\* initializeDatabase does not return true and checkAndInitialize does not
\* return true (here for a direct call of initializeDatabase).
C16_ExecSqlErrorFailsProvisioning ==
  ( /\ ~Called(log, "ensureDatabaseInitialized")
    /\ \E i \in 1..Len(log) : log[i].fn \in ExecSqlRoutines /\ log[i].ret = "false" )
    => /\ ~Returned(log, "initializeDatabase", "true")
       /\ ~Returned(log, "checkAndInitialize", "true")

\* a failure of one read or insert of insertDefaultData
SeedFaults == FaultSets(SeedSites) \ {{}}

\* the creation of the relations succeeded in the call with log l, or all
\* relations were there before it
Provisioned(l) ==
  Returned(l, "createTablesIfNotExist", "true") \/ Relations \subseteq db.tables

\* insertDefaultData ran in the latest step and left a relation it seeds
\* without rows
SeedingFailed ==
  /\ Called(log, "insertDefaultData")
  /\ \E rel \in {"whitelist_tokens", "admin_settings"} :
        rel \in db.tables /\ db.rows[rel] = {}

\* C17: when the relations were created or pre-exist, a failed read or insert
\* of insertDefaultData changes no result: initializeDatabase and
\* checkAndInitialize return true, performInstallation returns true, and the
\* wizard goes from `installing` to `admin-setup` with no error displayed.
C17_SeedingFailureDoesNotBlock ==
  /\ [](pc \in {"check", "install"} =>
         \A F \in SeedFaults :
           /\ \A r \in {IF init = "database-init.ts"
                          THEN initializeDatabase(db, session, F)
                          ELSE initializeDatabase_p3(db, session, F)} :
                Provisioned(r.log) =>
                  r.ret /\ ~r.thrown /\ Returned(r.log, "initializeDatabase", "true")
           /\ \A r \in {IF init = "database-init.ts"
                          THEN checkAndInitialize(db, session, F)
                          ELSE checkAndInitialize_p3(db, session, F)} :
                Provisioned(r.log) =>
                  r.ret /\ ~r.thrown /\ Returned(r.log, "checkAndInitialize", "true")
           /\ (pc = "install" /\ svc = "part_004") =>
                \A r \in {performInstallation_p4(init, db, session, F)} :
                  Provisioned(r.log) => r.ret /\ ~r.thrown)
  /\ [][ ( /\ pc = "install" /\ pc' = "idle"
           /\ SeedingFailed'
           /\ Returned(log', "performInstallation", "true") )
           => (installationStep' = "admin-setup" /\ error' = NoError) ]_vars

\* checkAndInitialize returned true in a performInstallation whose seeder
\* left whitelist_tokens empty, and the wizard is in `admin-setup`
C17_Witness ==
  /\ installationStep = "admin-setup"
  /\ error = NoError
  /\ Returned(log, "checkAndInitialize", "true")
  /\ Returned(log, "performInstallation", "true")
  /\ SeedingFailed

\* every combination of outcomes (ok, error, exception) of the three reads
\* and three inserts of insertDefaultData
SeedOutcomes ==
  {F \in SUBSET (SeedSites \X {"error", "throw"}) :
     \A x \in SeedSites : ~(<<x, "error">> \in F /\ <<x, "throw">> \in F)}

\* C18: insertDefaultData never throws to its caller: whatever the backend
\* holds and however its six backend calls end, it resolves with no value,
\* and in every step that runs it the caller goes on to return true.
C18_SeederNeverThrows ==
  /\ pc = "check" =>
       \A F \in SeedOutcomes :
         \A r \in {insertDefaultData(db, session, F)} :
           ~r.thrown /\ r.log = <<Ev("insertDefaultData", "", "void")>>
  /\ \A i \in 1..Len(log) :
       log[i].fn = "insertDefaultData" =>
         /\ log[i].ret = "void"
         /\ i < Len(log)
         /\ log[i + 1].fn \in {"initializeDatabase", "checkAndInitialize"}
         /\ log[i + 1].ret = "true"

\* the seeder ran against a backend without the relations it reads and
\* writes, and its caller returned true
C18_Witness ==
  /\ Returned(log, "insertDefaultData", "void")
  /\ Returned(log, "initializeDatabase", "true")
  /\ "whitelist_tokens" \notin db.tables
  /\ StatusRel \notin db.tables

\* C19: installation_status is a singleton: whatever the seeder and the
\* operations of InstallationService have done, the relation holds at most
\* one row.
C19_StatusSingleton ==
  Cardinality(db.rows[StatusRel]) <= 1

\* C20: no wallet address has more than one airdrop_claims row with status
\* completed, whatever createAirdropClaim, updateAirdropClaim and
\* hasClaimedAirdrop calls have been made.
C20_OneCompletedClaimPerWallet ==
  \A w \in Wallets :
    Cardinality({c \in db.rows["airdrop_claims"] :
                   c.wallet_address = w /\ c.status = "completed"}) <= 1

\* C21: settings are upserted by key: for the administrator on a working
\* backend, setSetting(k, v) returns true whether or not a row with key k
\* exists, leaves exactly one admin_settings row with key k, and a following
\* getSetting(k) returns v.
C21_SettingsUpsertedByKey ==
  session =>
    \A key \in SettingKeys, value \in SettingValues :
      \A r \in {setSetting(db, session, key, value, {})} :
        /\ r.ret /\ ~r.thrown
        /\ Cardinality({c \in r.db.rows["admin_settings"] : c.key = key}) = 1
        /\ getSetting(r.db, session, key, {}).ret = value

\* C22: when the wizard has reached `completed` through `admin-setup`,
\* exactly one admin_users row exists and its id is the id of the identity
\* created by signUp.
C22_AdminUserCreatedOnce ==
  (installationStep = "completed" /\ Called(log, "completeInstallation"))
    => /\ submitted.email \in db.users
       /\ Cardinality(db.rows["admin_users"]) = 1
       /\ \A r \in db.rows["admin_users"] : r.id = submitted.email

\* row-level security and the policies are in force on every relation of the
\* backend
PoliciesInstalled ==
  /\ db.tables # {}
  /\ db.tables \subseteq db.rls

WriteCmds == {"INSERT", "UPDATE", "DELETE"}

\* the backend with one more whitelist row, which is not active
WithInactiveToken ==
  [db EXCEPT !.rows["whitelist_tokens"] =
     @ \cup {[Token("0x00", "Retired", "OLD", 1) EXCEPT !.is_active = FALSE]}]

\* C23: with the policies of provisioning in force, an unauthenticated caller
\* reads only the active whitelist_tokens rows, reads and inserts
\* airdrop_claims and cannot update them, reads and cannot write
\* admin_settings and installation_status, and can neither read nor write
\* admin_users; an authenticated caller has full access to whitelist_tokens,
\* admin_settings, installation_status and admin_users and may update
\* airdrop_claims.
C23_AccessPolicies ==
  PoliciesInstalled =>
    /\ "whitelist_tokens" \in db.tables =>
         /\ Visible(WithInactiveToken, FALSE, "whitelist_tokens")
              = {r \in db.rows["whitelist_tokens"] : r.is_active}
         /\ Visible(WithInactiveToken, TRUE, "whitelist_tokens")
              = WithInactiveToken.rows["whitelist_tokens"]
         /\ \A c \in WriteCmds : /\ ~Allowed(db, FALSE, "whitelist_tokens", c)
                                 /\ Allowed(db, TRUE, "whitelist_tokens", c)
    /\ "airdrop_claims" \in db.tables =>
         /\ Allowed(db, FALSE, "airdrop_claims", "SELECT")
         /\ Allowed(db, FALSE, "airdrop_claims", "INSERT")
         /\ ~Allowed(db, FALSE, "airdrop_claims", "UPDATE")
         /\ Allowed(db, TRUE, "airdrop_claims", "UPDATE")
    /\ \A rel \in {"admin_settings", StatusRel} \cap db.tables :
         /\ Allowed(db, FALSE, rel, "SELECT")
         /\ Visible(db, FALSE, rel) = db.rows[rel]
         /\ \A c \in WriteCmds : ~Allowed(db, FALSE, rel, c) /\ Allowed(db, TRUE, rel, c)
         /\ Allowed(db, TRUE, rel, "SELECT")
    /\ "admin_users" \in db.tables =>
         \A c \in WriteCmds \cup {"SELECT"} :
           ~Allowed(db, FALSE, "admin_users", c) /\ Allowed(db, TRUE, "admin_users", c)

\* enableRLSAndCreatePolicies has just installed the policies on the five
\* relations, and the whitelist has rows
C23_Witness ==
  /\ PoliciesInstalled
  /\ Relations \subseteq db.tables
  /\ Returned(log, "enableRLSAndCreatePolicies", "true")
  /\ db.rows["whitelist_tokens"] # {}

\* the outcomes of one probe: it answers, answers with an error, or throws
ProbeFaults(site) == {{}, {<<site, "error">>}, {<<site, "throw">>}}

\* C24: tableExists(name) is true exactly when its one-row read succeeds,
\* that is when the read is answered and the relation exists, and false for
\* a missing relation, an error or an exception; checkAndInitialize probes
\* the five required relations in order and runs initializeDatabase exactly
\* when some probe returned false.
C24_ProberClassification ==
  /\ [](pc = "check" =>
         \A i \in 1..Len(requiredTables) :
           \A F \in ProbeFaults(<<"checkAndInitialize", requiredTables[i]>>) :
             tableExists(db, session, requiredTables[i],
                         <<"checkAndInitialize", requiredTables[i]>>, F)
               <=> (F = {} /\ requiredTables[i] \in db.tables))
  /\ [][ (init = "database-init.ts" /\ Called(log', "checkAndInitialize")) =>
           /\ Len(log') > Len(requiredTables)
           /\ \A i \in 1..Len(requiredTables) :
                /\ log'[i].fn = "tableExists"
                /\ log'[i].arg = requiredTables[i]
                /\ log'[i].ret \in {"true", "false"}
                /\ log'[i].ret = "true" => requiredTables[i] \in db.tables
                /\ requiredTables[i] \notin db.tables => log'[i].ret = "false"
           /\ IF \E i \in 1..Len(requiredTables) : log'[i].ret = "false"
                THEN log'[Len(requiredTables) + 1].fn = "createExecSqlFunction"
                ELSE /\ log'[Len(requiredTables) + 1].fn = "insertDefaultData"
                     /\ ~Called(log', "initializeDatabase") ]_vars

\* checkAndInitialize found the first relation and missed the last one, and
\* went on to initializeDatabase
C24_Witness ==
  /\ init = "database-init.ts"
  /\ Called(log, "checkAndInitialize")
  /\ log[1] = Ev("tableExists", requiredTables[1], "true")
  /\ log[Len(requiredTables)].ret = "false"
  /\ Called(log, "initializeDatabase")

\* C25: `completed` is terminal: in `completed` no backend response is
\* pending and no submission is in flight, and no step of the mounted wizard
\* changes installationStep (opening the page anew mounts a new wizard).
C25_CompletedIsTerminal ==
  /\ [](installationStep = "completed" => (pc = "idle" /\ ~loading /\ inFlight = 0))
  /\ [][ installationStep = "completed"
           => (installationStep' = "completed" \/ Revisit) ]_vars

\* the wizard is in `completed`, reached from `admin-setup`
C25_Witness ==
  /\ installationStep = "completed"
  /\ Called(log, "completeInstallation")
  /\ submitted # NothingSubmitted

\* C26: `migration-needed` is entered only by the migration version of the
\* page (part_001) and nothing is pending there; the step leaves it only by
\* the "Check Again" control, which re-enters `checking` with a fresh status
\* check under way.
C26_MigrationNeededUntilRecheck ==
  /\ [](installationStep = "migration-needed" => (page = "part_001" /\ pc = "idle"))
  /\ [][ (installationStep = "migration-needed" /\ installationStep' # "migration-needed")
           => /\ CheckAgain
              /\ installationStep' = "checking"
              /\ pc' = "check"
              /\ error' = NoError ]_vars

\* the migration version of the page asks for the migrations after a failed
\* performInstallation
C26_Witness ==
  /\ page = "part_001"
  /\ installationStep = "migration-needed"
  /\ Returned(log, "performInstallation", "false")
  /\ ENABLED CheckAgain

\* the number of events of routine fn in the log l
Invocations(l, fn) == Cardinality({i \in 1..Len(l) : l[i].fn = fn})

\* C27: no automatic retry: a status check is under way only after a mount
\* of the page, its resolution never leaves another status check under way,
\* performInstallation starts only out of that resolution and its own
\* resolution leaves nothing pending, and a step invokes each of the two
\* service routines at most once, whatever the backend answers.
C27_NoAutomaticRetry ==
  /\ [][ (pc' = "check" /\ pc # "check") => (CheckAgain \/ Revisit) ]_vars
  /\ [][ Called(log', "checkInstallationStatus")
           => (pc = "check" /\ pc' \in {"idle", "install"}) ]_vars
  /\ [][ (pc' = "install" /\ pc # "install") => pc = "check" ]_vars
  /\ [][ Called(log', "performInstallation") => (pc = "install" /\ pc' = "idle") ]_vars
  /\ [](/\ Invocations(log, "checkInstallationStatus") <= 1
        /\ Invocations(log, "performInstallation") <= 1)

\* both calls of one page load failed and the wizard is at rest
C27_Witness ==
  /\ page = "part_002"
  /\ pc = "idle"
  /\ installationStep = "installing"
  /\ Returned(log, "performInstallation", "false")
  /\ Invocations(log, "performInstallation") = 1

\* the (symbol, airdrop_amount) pairs of the default whitelist
DefaultPairs ==
  { <<"SHIB", 1000000>>, <<"LINK", 50>>, <<"UNI", 100>>,
    <<"DAI", 500>>, <<"MATIC", 200>>, <<"WBTC", 1>> }

\* six rows with the default pairs, pairwise distinct addresses, all active
SixDefaults(rows) ==
  /\ Cardinality(rows) = Cardinality(DefaultPairs)
  /\ {<<r.symbol, r.airdrop_amount>> : r \in rows} = DefaultPairs
  /\ Cardinality({r.address : r \in rows}) = Cardinality(rows)
  /\ \A r \in rows : r.is_active

C29_AdminSetupNeedsFiveRelations ==
  (svc = "installation.ts" /\ installationStep = "admin-setup")
    => Relations \subseteq db.tables

\* C30: when completeInstallation of installation.ts returns true, a
\* checkInstallationStatus that follows it at once returns isInstalled =
\* true, whatever installation_status held (evaluated where handleAdminSetup
\* is about to call completeInstallation, with both calls answered).
C30_CompleteThenCheckInstalled ==
  (svc = "installation.ts" /\ pc = "complete") =>
    \A r \in {completeInstallation(db, session, {})} :
      (r.ret /\ ~r.thrown) => checkInstallationStatus(r.db, session, {}).ret

\* the three seeded relations of store d hold their defaults
DefaultsInPlace(d) ==
  /\ d.rows["whitelist_tokens"] = DefaultWhitelist
  /\ d.rows["admin_settings"] = DefaultSettings
  /\ Cardinality(d.rows[StatusRel]) = 1

\* C31: when checkAndInitialize returns true on a backend that has no
\* relation and offers exec_sql, called without a session, the three seeded
\* relations hold their defaults afterwards: six whitelist tokens, four
\* settings, one installation_status row.
C31_TrueMeansSeeded ==
  (db = FreshBackend(TRUE) /\ ~session) =>
    \A r \in {checkAndInitialize(db, session, {})} :
      r.ret => DefaultsInPlace(r.db)

\* every response useAuth waits for has been delivered
AuthQuiescent ==
  /\ useAuth.getSession = "done"
  /\ useAuth.pending = <<>>
  /\ useAuth.signOut = "idle"

\* C32: useAuth shows no stale administrator: once the latest session event
\* carries no user (or signOut has run) and every pending response has
\* been delivered, adminUser is null and isAdmin is false.
C32_NoStaleAdmin ==
  (AuthQuiescent /\ useAuth.stored = NoUser)
    => (useAuth.adminUser = {} /\ ~isAdmin(useAuth))

\* C33: loading is false only when the admin record of the signed-in user
\* has been resolved: no loadAdminUser call is pending and isAdmin reflects
\* the user's admin_users record.
C33_LoadingCoversAdminLookup ==
  (~useAuth.loading /\ useAuth.user # NoUser)
    => /\ \A i \in 1..Len(useAuth.pending) : useAuth.pending[i].userId # useAuth.user
       /\ useAuth.adminUser = getCurrentAdminUser(db, TRUE, useAuth.user)

\* C34: after setApiKey(k) has resolved (and until setApiKey is called
\* again), every getAddressInfo / getTokenInfo request carries k, whatever
\* the constructor's loadApiKey does in between.
C34_RequestsUseSetKey ==
  [][ ( /\ (Called(log', "getAddressInfo") \/ Called(log', "getTokenInfo"))
        /\ ethplorerService.resolvedWith # "none"
        /\ ethplorerService.setApiKey = "idle" )
        => ethplorerService'.requestKey = ethplorerService.resolvedWith ]_vars

\* the caller's read of installation_status returns exactly one row, and it
\* reads is_installed = true
ReadsOneInstalled(d, s) ==
  /\ StatusRel \in d.tables
  /\ \E x \in Visible(d, s, StatusRel) :
       Visible(d, s, StatusRel) = {x} /\ x.is_installed

\* C35: checkInstallationStatus of installation.ts never throws, returns
\* isInstalled = true only when the single-row read of installation_status
\* succeeds with is_installed = true, returns false on any read error
\* (missing relation, zero rows, several rows, a failed call), and writes
\* nothing; the page shows what it returned.
C35_StatusCheckFailsClosed ==
  /\ []( (svc = "installation.ts" /\ pc \in {"check", "idle"}) =>
           \A F \in FaultSets(CheckSites(svc)) :
             \A r \in {checkInstallationStatus(db, session, F)} :
               /\ ~r.thrown
               /\ r.db = db
               /\ r.ret <=> (F = {} /\ ReadsOneInstalled(db, session))
               /\ Returned(r.log, "checkInstallationStatus", B2S(r.ret)) )
  /\ [][ (svc = "installation.ts" /\ Called(log', "checkInstallationStatus"))
           => /\ db' = db
              /\ isInstalled' <=> Returned(log', "checkInstallationStatus", "true")
              /\ isInstalled' => ReadsOneInstalled(db, session) ]_vars

\* the status check of installation.ts read one installed row and the page
\* shows `completed`
C35_Witness ==
  /\ svc = "installation.ts"
  /\ Returned(log, "checkInstallationStatus", "true")
  /\ isInstalled
  /\ installationStep = "completed"
  /\ ReadsOneInstalled(db, session)

\* the status check of installation.ts answered false on a relation that
\* holds no single row for the caller
C35_WitnessError ==
  /\ svc = "installation.ts"
  /\ Returned(log, "checkInstallationStatus", "false")
  /\ ~isInstalled
  /\ Cardinality(Visible(db, session, StatusRel)) # 1

\* C36: hasClaimedAirdrop agrees with the stored claims whatever the letter
\* case: when createAirdropClaim has stored a completed claim for wallet
\* address w, hasClaimedAirdrop(w) returns true.
C36_ClaimFoundInAnyCase ==
  \A w \in Wallets :
    (\E c \in db.rows["airdrop_claims"] :
        c.wallet_address = w /\ c.status = "completed")
      => hasClaimedAirdrop(db, session, w, {}).ret

\* handleAdminSetup finished in the step: a validation failure, or the
\* resolution of its last outstanding request
AdminSetupFinishes ==
  \/ Returned(log', "handleAdminSetup", "rejected")
  \/ (pc \in {"signUp", "complete"} /\ pc' = "idle")

\* C37: the submit control of the admin-setup form is re-enabled on every
\* path: when handleAdminSetup finishes (validation failure, signUp error,
\* exception, success) loading is false, and loading is true only while a
\* signUp or completeInstallation request is outstanding.
C37_SubmitReenabled ==
  /\ [](loading => pc \in {"signUp", "complete"})
  /\ [][AdminSetupFinishes => ~loading']_vars
  /\ [][(loading /\ ~loading') =>
          (Called(log', "signUp") \/ Called(log', "completeInstallation") \/ Revisit)]_vars

\* signUp answered with an error: the handler returned through its finally
\* block and the form can be submitted again
C37_Witness ==
  /\ installationStep = "admin-setup"
  /\ Returned(log, "signUp", "error")
  /\ pc = "idle"
  /\ ~loading
  /\ error # NoError
  /\ ENABLED handleAdminSetup

\* the wizard rests: nothing is pending and it shows `completed`,
\* `admin-setup`, `migration-needed`, or `installing` with an error
Rests ==
  /\ pc = "idle"
  /\ \/ installationStep \in {"completed", "admin-setup", "migration-needed"}
     \/ (installationStep = "installing" /\ error # NoError)

\* C38: the wizard never stays in `checking`: when every backend call is
\* answered, the step leaves `checking` and comes to rest in `completed`,
\* `admin-setup`, `migration-needed`, or `installing` with an error
\* displayed (stated for InstallationService of installation.ts).
C38_CheckingEnds ==
  (svc = "installation.ts" /\ installationStep = "checking") ~> Rests

\* the wizard over installation.ts left `checking` and rests in `installing`
\* with an error displayed
C38_Witness ==
  /\ svc = "installation.ts"
  /\ Returned(log, "performInstallation", "false")
  /\ installationStep = "installing"
  /\ error # NoError
  /\ Rests

=============================================================================
